---------------------------- MODULE Spec2Model ----------------------------
(***************************************************************************)
(* A model of the Mini Drive LAN file server (src/pyside_server.py) and    *)
(* of the network engine of its client (src/pyside_client.py).             *)
(*                                                                         *)
(* The module holds several specifications over one set of variables:      *)
(*   SpecFS   the server's command handlers acting on the file system,     *)
(*            one command per step (path sandbox, LIST, UPLOAD, DOWNLOAD,  *)
(*            DELETE, MKDIR, unknown command);                             *)
(*   SpecTree the same handlers with the paths and names of an ordinary    *)
(*            session, on a storage tree with a folder;                    *)
(*   SpecXfer concurrent sessions of the server receiving uploads, one     *)
(*            recv per step, with clients that send, stall or close;       *)
(*   SpecReg  the life of the server: start, the accept loop, the sessions *)
(*            with their exit paths, and stop_server, one bytecode-level   *)
(*            step of one thread at a time, on the list self.clients;      *)
(*   SpecClient the network engine of the client (NetworkWorker) with its  *)
(*            listener thread, the interface thread and one thread per     *)
(*            transfer, connected to one session of the server;            *)
(*   SpecSession one session of the server (handle_client) fed lines and   *)
(*            payload by an arbitrary program at the other end;            *)
(*   SpecShared SpecClient on a storage that another client deletes from;  *)
(*   SpecLink SpecClient on a connection the server may close, with the    *)
(*            send and receive errors of the client and do_disconnect;     *)
(*            SpecLinkFair adds the fairness of the threads;               *)
(*   SpecToggle SpecClient with the connection button pressed a second     *)
(*            time (toggle_connection, do_disconnect);                     *)
(*   SpecFrame the receive loop of a session on a stream of bytes that     *)
(*            arrives in segments of any length;                           *)
(*   SpecListen the listener thread of the client fed lines by an          *)
(*            arbitrary program at the other end.                          *)
(* Each specification leaves the variables of the others untouched.        *)
(*                                                                         *)
(* Strings that the code inspects character by character (paths, file      *)
(* names) are sequences of one-character strings, so that lstrip, join,    *)
(* normpath and startswith are computed as posixpath computes them.        *)
(***************************************************************************)
EXTENDS Integers, Sequences, FiniteSets, TLC

(***************************************************************************)
(* Bounds of the model.                                                    *)
(***************************************************************************)
\* Largest declared size of an uploaded file, in bytes.
MaxSize == 1
\* Largest declared size of a file sent over a connection byte by byte.
MaxPayload == 2
\* Number of connections served at the same time.
NSess == 2
\* Largest length of a byte stream whose framing is followed, in bytes.
MaxStream == 4
\* Number of connections the server accepts in one run.
MaxConns == 2
\* Number of times the user refreshes the listing on the client.
MaxRefresh == 1
\* Number of lines the other end of a session writes.
MaxLines == 2
\* The chunk ceiling of every transfer loop (8192 in the source), scaled so
\* that files of MaxSize bytes fall below, on and above a chunk boundary.
CHUNK == 1

\* Bind(e, LAMBDA x : body) is LET x == e IN body with e evaluated once.
Bind(e, F(_)) == CHOOSE y \in {F(x) : x \in {e}} : TRUE

(***************************************************************************)
(* Character strings.                                                      *)
(***************************************************************************)
\* str.startswith
StartsWith(s, p) ==
    /\ Len(p) <= Len(s)
    /\ SubSeq(s, 1, Len(p)) = p

\* str.lstrip("/")
RECURSIVE LStripSlash(_)
LStripSlash(s) ==
    IF s # <<>> /\ Head(s) = "/" THEN LStripSlash(Tail(s)) ELSE s

\* str.split("/"): the components between the separators, empty ones kept
RECURSIVE SplitFrom(_, _)
SplitFrom(s, cur) ==
    IF s = <<>> THEN <<cur>>
    ELSE IF Head(s) = "/" THEN <<cur>> \o SplitFrom(Tail(s), <<>>)
    ELSE SplitFrom(Tail(s), Append(cur, Head(s)))

Split(s) == SplitFrom(s, <<>>)

\* "/".join(comps)
RECURSIVE JoinComps(_)
JoinComps(comps) ==
    IF comps = <<>> THEN <<>>
    ELSE IF Len(comps) = 1 THEN comps[1]
    ELSE comps[1] \o <<"/">> \o JoinComps(Tail(comps))

DOT == <<".">>
DOTDOT == <<".", ".">>

\* posixpath.isabs
IsAbs(s) == StartsWith(s, <<"/">>)

\* posixpath.join(a, b)
PathJoin(a, b) ==
    IF IsAbs(b) THEN b
    ELSE IF a = <<>> \/ a[Len(a)] = "/" THEN a \o b
    ELSE a \o <<"/">> \o b

\* The component loop of posixpath.normpath
RECURSIVE NormComps(_, _, _)
NormComps(comps, new, initial) ==
    IF comps = <<>> THEN new
    ELSE LET comp == Head(comps)
             rest == Tail(comps)
         IN  IF comp = <<>> \/ comp = DOT THEN NormComps(rest, new, initial)
             ELSE IF \/ comp # DOTDOT
                     \/ (initial = 0 /\ new = <<>>)
                     \/ (new # <<>> /\ new[Len(new)] = DOTDOT)
                  THEN NormComps(rest, Append(new, comp), initial)
             ELSE IF new # <<>>
                  THEN NormComps(rest, SubSeq(new, 1, Len(new) - 1), initial)
             ELSE NormComps(rest, new, initial)

\* posixpath.normpath: the normalised components and the number of leading
\* slashes (0, 1 or 2)
InitialSlashes(path) ==
    IF ~StartsWith(path, <<"/">>) THEN 0
    ELSE IF StartsWith(path, <<"/", "/">>) /\ ~StartsWith(path, <<"/", "/", "/">>)
         THEN 2
    ELSE 1

NormPath(path) ==
    IF path = <<>> THEN DOT
    ELSE LET initial == InitialSlashes(path)
             joined  == JoinComps(NormComps(Split(path), <<>>, initial))
             out     == IF initial = 2 THEN <<"/", "/">> \o joined
                        ELSE IF initial = 1 THEN <<"/">> \o joined
                        ELSE joined
         IN  IF out = <<>> THEN DOT ELSE out

\* The working directory of the server process.
Cwd == <<"/", "h">>

\* posixpath.abspath
AbsPath(path) ==
    IF IsAbs(path) THEN NormPath(path) ELSE NormPath(PathJoin(Cwd, path))

\* posixpath.split(p): head and tail around the last separator
RECURSIVE RFindSlash(_, _)
RFindSlash(p, i) ==
    IF i = 0 THEN 0 ELSE IF p[i] = "/" THEN i ELSE RFindSlash(p, i - 1)

RECURSIVE RStripSlash(_)
RStripSlash(s) ==
    IF s # <<>> /\ s[Len(s)] = "/" THEN RStripSlash(SubSeq(s, 1, Len(s) - 1)) ELSE s

PathSplit(p) ==
    LET i    == RFindSlash(p, Len(p))
        head == SubSeq(p, 1, i)
        tail == SubSeq(p, i + 1, Len(p))
    IN  [head |-> IF head # <<>> /\ RStripSlash(head) # <<>> THEN RStripSlash(head)
                  ELSE head,
         tail |-> tail]

(***************************************************************************)
(* The file system.  A node is the sequence of names from "/" down to it;  *)
(* a file system maps the nodes that exist to a directory or to a file     *)
(* with its bytes.  It includes the locations outside the storage root.    *)
(***************************************************************************)
DirNode == [dir |-> TRUE, data |-> <<>>]
FileNode(bytes) == [dir |-> FALSE, data |-> bytes]

IsDirNode(f, n) == n \in DOMAIN f /\ f[n].dir
\* An isfile that takes a directory for a file
IsAnyNode(f, n) == n \in DOMAIN f

IsFileNode(f, n) == n \in DOMAIN f /\ ~f[n].dir

Parent(n) == IF n = <<>> THEN <<>> ELSE SubSeq(n, 1, Len(n) - 1)

\* n is d or lies below d
Within(n, d) == Len(d) <= Len(n) /\ SubSeq(n, 1, Len(d)) = d

\* Path resolution as the kernel does it, one component at a time: every
\* component but the last must be an existing directory.
RECURSIVE Walk(_, _, _)
Walk(f, cur, comps) ==
    IF comps = <<>> THEN [ok |-> TRUE, node |-> cur]
    ELSE IF ~IsDirNode(f, cur) THEN [ok |-> FALSE, node |-> cur]
    ELSE LET c == Head(comps)
         IN  IF c = <<>> \/ c = DOT THEN Walk(f, cur, Tail(comps))
             ELSE IF c = DOTDOT THEN Walk(f, Parent(cur), Tail(comps))
             ELSE Walk(f, Append(cur, c), Tail(comps))

Resolve(f, path) == Walk(f, <<>>, Split(path))

\* os.path.exists, os.path.isdir, os.path.isfile
PathExists(f, path) == Bind(Resolve(f, path), LAMBDA r : r.ok /\ r.node \in DOMAIN f)
\* An isdir that never answers yes
PathIsNoDir(f, path) == FALSE

PathIsDir(f, path) == Bind(Resolve(f, path), LAMBDA r : r.ok /\ IsDirNode(f, r.node))
PathIsFile(f, path) == Bind(Resolve(f, path), LAMBDA r : r.ok /\ IsFileNode(f, r.node))

\* os.mkdir
Mkdir(f, path) ==
    LET r == Resolve(f, path)
    IN  IF ~r.ok THEN [err |-> "OSError", fs |-> f]
        ELSE IF r.node \in DOMAIN f THEN [err |-> "FileExistsError", fs |-> f]
        ELSE [err |-> "none", fs |-> f @@ (r.node :> DirNode)]

\* A makedirs that creates nothing
MakeNoDirs(f, name, existOk) == [err |-> "none", fs |-> f]

\* os.makedirs(name, exist_ok=existOk)
RECURSIVE MakeDirs(_, _, _)
MakeDirs(f, name, existOk) ==
    LET s1  == PathSplit(name)
        ht  == IF s1.tail = <<>> THEN PathSplit(s1.head) ELSE s1
        pre == IF ht.head # <<>> /\ ht.tail # <<>> /\ ~PathExists(f, ht.head)
               THEN LET r == MakeDirs(f, ht.head, existOk)
                    IN  IF r.err = "OSError"
                        THEN [stop |-> TRUE, err |-> "OSError", fs |-> r.fs]
                        ELSE IF ht.tail = DOT
                        THEN [stop |-> TRUE, err |-> "none", fs |-> r.fs]
                        ELSE [stop |-> FALSE, err |-> "none", fs |-> r.fs]
               ELSE [stop |-> FALSE, err |-> "none", fs |-> f]
    IN  IF pre.stop THEN [err |-> pre.err, fs |-> pre.fs]
        ELSE LET m == Mkdir(pre.fs, name)
             IN  IF m.err = "none" THEN m
                 ELSE IF existOk /\ PathIsDir(pre.fs, name)
                 THEN [err |-> "none", fs |-> pre.fs]
                 ELSE m

\* os.listdir: the names of the immediate children
\* Everything below a node, at any depth
Descendants(f, n) == {k \in DOMAIN f : Within(k, n) /\ k # n}

Children(f, n) == {k \in DOMAIN f : Len(k) = Len(n) + 1 /\ Parent(k) = n}

\* A removal that leaves what is below the node
RemoveNode(f, n) == [k \in DOMAIN f \ {n} |-> f[k]]

\* shutil.rmtree / os.remove: the node and everything below it go
RemoveTree(f, n) == [k \in {k \in DOMAIN f : ~Within(k, n)} |-> f[k]]

\* open(path, "wb"): create or truncate
CreateFile(f, n) == [k \in DOMAIN f \cup {n} |-> IF k = n THEN FileNode(<<>>) ELSE f[k]]

(***************************************************************************)
(* Protocol messages.  A response is a JSON object: keys is the set of     *)
(* keys it carries, the other fields hold their values (a default where    *)
(* the key is absent).  Message texts that str(e) produces for an          *)
(* exception of the operating system are the name of the exception.        *)
(***************************************************************************)
MessageResp(status, message) ==
    [keys |-> {"status", "message"}, status |-> status, message |-> message,
     items |-> {}, current_path |-> <<>>, size |-> 0]

ErrorResp(message) == MessageResp("error", message)
SuccessResp(message) == MessageResp("success", message)

ReadyResp ==
    [keys |-> {"status"}, status |-> "ready", message |-> "",
     items |-> {}, current_path |-> <<>>, size |-> 0]

ListingResp(items, relPath) ==
    [keys |-> {"status", "items", "current_path"}, status |-> "success",
     message |-> "", items |-> items, current_path |-> relPath, size |-> 0]

\* A handshake that announces one byte more than it is given
SizeRespOff(size) ==
    [keys |-> {"status", "size"}, status |-> "success", message |-> "",
     items |-> {}, current_path |-> <<>>, size |-> size + 1]

SizeResp(size) ==
    [keys |-> {"status", "size"}, status |-> "success", message |-> "",
     items |-> {}, current_path |-> <<>>, size |-> size]

\* One Entry of a listing (the modification time is not modelled).
Entry(f, n) ==
    [name |-> n[Len(n)], is_dir |-> f[n].dir,
     size |-> IF f[n].dir THEN 0 ELSE Len(f[n].data)]

(***************************************************************************)
(* The path sandbox.                                                       *)
(***************************************************************************)
\* self.storage
Storage == <<"s">>

\* base_path of get_full_path, and the node it names
BasePath == AbsPath(Storage)
RootNode == <<<<"h">>, <<"s">>>>

AccessDenied == "Access denied: Path outside storage"

\* PySideServer.get_full_path: ok is FALSE where the code raises
GetFullPath(relPath) ==
    LET full == AbsPath(PathJoin(BasePath, LStripSlash(relPath)))
    IN  [ok |-> StartsWith(full, BasePath), path |-> full]

\* The values of the `path` field that clients send
FSPaths ==
    { <<>>,                                    \* ""       the root
      <<".", ".">>,                            \* ".."     the parent of the root
      <<".", ".", "/", "s", "2">>,             \* "../s2"  a sibling of the root
      <<"/", "a", "/", ".", ".">> }            \* "/a/.."  the root again

\* The values of the `filename` and `dirname` fields that clients send
FSNames ==
    { <<"f">>,                                 \* "f"
      <<".", ".", "/", "f">>,                  \* "../f"
      <<>> }                                   \* ""

\* The values of the `path` and `filename` fields in SpecXfer
XPaths ==
    { <<>>,                                    \* ""    the root
      <<"a">>,                                 \* "a"   a folder of the root
      <<".", ".">> }                           \* ".."  the parent of the root

\* The value of the `filename` field in SpecXfer: "f", which open() accepts
\* under either folder
XName == <<"f">>

\* get_full_path of every value of the path field, computed once
FullPath == [p \in FSPaths \cup XPaths |-> GetFullPath(p)]

(***************************************************************************)
(* The command handlers.  Each takes the file system and the request and   *)
(* yields the file system afterwards, the responses written to the         *)
(* connection in order, the payload bytes written after them, and the      *)
(* nodes the handler's file-system calls went to.                          *)
(***************************************************************************)
Outcome(f, responses, bytes, nodes) ==
    [fs |-> f, resp |-> responses, payload |-> bytes, acc |-> nodes]

\* PySideServer.handle_list
HandleList(f, r) ==
    Bind(FullPath[r.path], LAMBDA g :
    IF ~g.ok THEN Outcome(f, <<ErrorResp(AccessDenied)>>, <<>>, {})
    ELSE
    Bind(Resolve(f, g.path), LAMBDA w :
    Bind(IF w.ok /\ w.node \in DOMAIN f
         THEN [err |-> "none", fs |-> f]
         ELSE MakeDirs(f, g.path, FALSE), LAMBDA md :
    IF md.err # "none"
    THEN Outcome(md.fs, <<ErrorResp(md.err)>>, <<>>, {w.node})
    ELSE
    Bind(Resolve(md.fs, g.path), LAMBDA d :
    IF ~(d.ok /\ IsDirNode(md.fs, d.node))
    THEN Outcome(md.fs, <<ErrorResp("NotADirectoryError")>>, <<>>, {w.node})
    ELSE
    Bind(Children(md.fs, d.node), LAMBDA ch :
    Outcome(md.fs, <<ListingResp({Entry(md.fs, k) : k \in ch}, r.path)>>,
            <<>>, {d.node} \cup ch))))))

Min(a, b) == IF a < b THEN a ELSE b

\* The receive loop of handle_upload run on the bytes that arrive before the
\* sender stops: each recv asks for min(CHUNK, size - received) bytes and
\* yields what has arrived of them; the loop ends when size bytes are in or
\* a recv finds nothing.
RECURSIVE RecvLoop(_, _, _, _)
RecvLoop(received, written, avail, size) ==
    IF received >= size
    THEN [received |-> received, written |-> written, short |-> FALSE]
    ELSE LET want == Min(CHUNK, size - received)
             got  == Min(want, Len(avail))
         IN  IF got = 0
             THEN [received |-> received, written |-> written, short |-> TRUE]
             ELSE RecvLoop(received + got, written \o SubSeq(avail, 1, got),
                           SubSeq(avail, got + 1, Len(avail)), size)

\* PySideServer.handle_upload.  r.sent are the payload bytes the sender
\* puts on the connection; when they run out before size bytes, r.ending
\* says what the next recv does: "eof" (the peer closed, recv returns
\* nothing) or "timeout" (the peer is silent, recv raises socket.timeout).
HandleUpload(f, r) ==
    IF ~r.hasName \/ r.name = <<>> \/ ~r.hasSize
    THEN Outcome(f, <<ErrorResp("Missing info")>>, <<>>, {})
    ELSE
    Bind(FullPath[r.path], LAMBDA g :
    IF ~g.ok THEN Outcome(f, <<ErrorResp(AccessDenied)>>, <<>>, {})
    ELSE
    Bind(Resolve(f, PathJoin(g.path, r.name)), LAMBDA w :
    IF ~w.ok \/ IsDirNode(f, w.node)
    THEN Outcome(f, <<ReadyResp, ErrorResp("OSError")>>, <<>>, {w.node})
    ELSE
    Bind(RecvLoop(0, <<>>, r.sent, r.size), LAMBDA loop :
    Bind([k \in DOMAIN f \cup {w.node} |->
             IF k = w.node THEN FileNode(loop.written) ELSE f[k]], LAMBDA f2 :
    IF loop.short /\ r.ending = "timeout"
    THEN Outcome(f2, <<ReadyResp, ErrorResp("timed out")>>, <<>>, {w.node})
    ELSE IF loop.received = r.size
    THEN Outcome(f2, <<ReadyResp, SuccessResp("Upload complete")>>, <<>>,
                 {w.node})
    ELSE Outcome(IF w.node \in DOMAIN f2 THEN RemoveTree(f2, w.node) ELSE f2,
                 <<ReadyResp, ErrorResp("Transfer incomplete")>>, <<>>,
                 {w.node})))))

\* PySideServer.handle_download
HandleDownload(f, r) ==
    Bind(FullPath[r.path], LAMBDA g :
    IF ~g.ok THEN Outcome(f, <<ErrorResp(AccessDenied)>>, <<>>, {})
    ELSE IF ~r.hasName THEN Outcome(f, <<ErrorResp("TypeError")>>, <<>>, {})
    ELSE
    Bind(Resolve(f, PathJoin(g.path, r.name)), LAMBDA w :
    IF w.ok /\ IsFileNode(f, w.node)
    THEN Outcome(f, <<SizeResp(Len(f[w.node].data))>>, f[w.node].data, {w.node})
    ELSE Outcome(f, <<ErrorResp("File not found")>>, <<>>, {w.node})))

\* PySideServer.handle_delete
HandleDelete(f, r) ==
    Bind(FullPath[r.path], LAMBDA g :
    IF ~g.ok THEN Outcome(f, <<ErrorResp(AccessDenied)>>, <<>>, {})
    ELSE IF ~r.hasName THEN Outcome(f, <<ErrorResp("TypeError")>>, <<>>, {})
    ELSE
    Bind(Resolve(f, PathJoin(g.path, r.name)), LAMBDA w :
    IF w.ok /\ w.node \in DOMAIN f
    THEN Outcome(RemoveTree(f, w.node), <<SuccessResp("Deleted")>>, <<>>,
                 {k \in DOMAIN f : Within(k, w.node)})
    ELSE Outcome(f, <<ErrorResp("Not found")>>, <<>>, {w.node})))

\* PySideServer.handle_mkdir
HandleMkdir(f, r) ==
    Bind(FullPath[r.path], LAMBDA g :
    IF ~g.ok THEN Outcome(f, <<ErrorResp(AccessDenied)>>, <<>>, {})
    ELSE IF ~r.hasName THEN Outcome(f, <<ErrorResp("TypeError")>>, <<>>, {})
    ELSE
    Bind(PathJoin(g.path, r.name), LAMBDA newDir :
    Bind(MakeDirs(f, newDir, TRUE), LAMBDA md :
    IF md.err # "none"
    THEN Outcome(md.fs, <<ErrorResp(md.err)>>, <<>>, {Resolve(f, newDir).node})
    ELSE Outcome(md.fs, <<SuccessResp("Folder created")>>, <<>>,
                 {Resolve(md.fs, newDir).node}))))

\* The dispatch of handle_client on the command of one request
\* A dispatch whose last branch serves a listing
DispatchAsList(f, r) ==
    IF r.command = "UPLOAD" THEN HandleUpload(f, r)
    ELSE IF r.command = "DOWNLOAD" THEN HandleDownload(f, r)
    ELSE IF r.command = "DELETE" THEN HandleDelete(f, r)
    ELSE IF r.command = "MKDIR" THEN HandleMkdir(f, r)
    ELSE HandleList(f, r)

\* handle_client: the if/elif chain on the command
Dispatch(f, r) ==
    IF r.command = "LIST" THEN HandleList(f, r)
    ELSE IF r.command = "UPLOAD" THEN HandleUpload(f, r)
    ELSE IF r.command = "DOWNLOAD" THEN HandleDownload(f, r)
    ELSE IF r.command = "DELETE" THEN HandleDelete(f, r)
    ELSE IF r.command = "MKDIR" THEN HandleMkdir(f, r)
    ELSE Outcome(f, <<ErrorResp("Unknown command")>>, <<>>, {})

(***************************************************************************)
(* State.                                                                  *)
(***************************************************************************)
VARIABLES
    fs,         \* the file system of the server's host
    req,        \* SpecFS: the request served last
    resp,       \* SpecFS: the responses written for it, in order
    payload,    \* SpecFS: the payload bytes written after them
    acc,        \* SpecFS: the nodes its file-system calls went to
    xs,         \* SpecXfer: the server's sessions (threads of handle_client)
    xnet,       \* SpecXfer: per connection, the bytes on their way to the server
    xpeer,      \* SpecXfer: per connection, the client at the other end
    xover,      \* SpecXfer: two sessions have received payload at the same time
    running,    \* SpecReg: self.running
    server,     \* SpecReg: self.server, the listening socket
    clients,    \* SpecReg: self.clients, the list of accepted connections
    connOpen,   \* SpecReg: per connection, the server's socket is not closed
    sess,       \* SpecReg: per connection, the thread of handle_client
    acceptor,   \* SpecReg: the thread of accept_clients
    stopper,    \* SpecReg: the interface thread inside stop_server
    count,      \* SpecReg: the count last emitted on client_count_changed
    connected,  \* SpecClient: NetworkWorker.connected
    server_ip,  \* SpecClient: NetworkWorker.server_ip
    is_transferring, \* SpecClient: NetworkWorker.is_transferring
    buffer,     \* SpecClient: NetworkWorker.buffer, what the listener has read
    socket_lock, \* SpecClient: the holder of NetworkWorker.socket_lock
    lpc,        \* SpecClient: the position of the listener thread in run
    ui,         \* SpecClient: the interface thread and what the window shows
    xfer,       \* SpecClient: the threads of upload_file and download_file
    c2s,        \* SpecClient: the stream from the client to the server
    s2c,        \* SpecClient: the stream from the server to the client
    srv,        \* SpecClient: the server's session for this client
    peer,       \* SpecSession: the program at the other end of the connection
    wire        \* SpecFrame: a byte stream and the session that reads it

fsVars == <<req, resp, payload, acc>>
xferVars == <<xs, xnet, xpeer, xover>>
regVars == <<running, server, clients, connOpen, sess, acceptor, stopper, count>>
cliVars == <<connected, server_ip, is_transferring, buffer, socket_lock, lpc,
             ui, xfer, c2s, s2c, srv>>
sessVars == <<peer>>
wireVars == <<wire>>
vars == <<fs, req, resp, payload, acc, xs, xnet, xpeer, xover,
          running, server, clients, connOpen, sess, acceptor, stopper, count,
          connected, server_ip, is_transferring, buffer, socket_lock, lpc,
          ui, xfer, c2s, s2c, srv, peer, wire>>

\* What the steps of each specification leave alone
fsFrame == <<xferVars, regVars, cliVars, sessVars, wireVars>>
xferFrame == <<fsVars, regVars, cliVars, sessVars, wireVars>>
regFrame == <<fs, fsVars, xferVars, cliVars, sessVars, wireVars>>
cliFrame == <<fsVars, xferVars, regVars, sessVars, wireVars>>

(***************************************************************************)
(* SpecFS: the command handlers on the file system, one request per step.  *)
(***************************************************************************)
\* The bytes a sender puts on the connection: the first k bytes of a file.
Bytes(k) == [i \in 1..k |-> i]

\* After PySideServer.__init__: the working directory holds the storage
\* root (os.makedirs(self.storage, exist_ok=True)) and, next to it, a file
\* that does not belong to the storage.
InitialFS ==
    (<<>> :> DirNode) @@ (<<<<"h">>>> :> DirNode) @@ (RootNode :> DirNode)
    @@ (<<<<"h">>, <<"f">>>> :> FileNode(<<9>>))

NoRequest ==
    [command |-> "NONE", path |-> <<>>, hasName |-> FALSE, name |-> <<>>,
     hasSize |-> FALSE, size |-> 0, sent |-> <<>>, ending |-> "none"]

Request(command, path, hasName, name) ==
    [command |-> command, path |-> path, hasName |-> hasName, name |-> name,
     hasSize |-> FALSE, size |-> 0, sent |-> <<>>, ending |-> "none"]

UploadRequest(path, hasName, name, hasSize, size, sent, ending) ==
    [command |-> "UPLOAD", path |-> path, hasName |-> hasName, name |-> name,
     hasSize |-> hasSize, size |-> size, sent |-> sent, ending |-> ending]

\* No request served yet
FSIdle ==
    /\ req = NoRequest
    /\ resp = <<>>
    /\ payload = <<>>
    /\ acc = {}

Sessions == 1..NSess

IdleSession ==
    [pc |-> "idle", target |-> <<>>, size |-> 0, received |-> 0,
     result |-> "none"]

IdlePeer == [state |-> "idle", sent |-> 0]

\* No connection has carried anything yet
XferIdle ==
    /\ xs = [s \in Sessions |-> IdleSession]
    /\ xnet = [s \in Sessions |-> <<>>]
    /\ xpeer = [s \in Sessions |-> IdlePeer]
    /\ xover = FALSE

Conns == 1..MaxConns

NoSession == [pc |-> "none", exit |-> "none"]

\* After PySideServer.__init__: not running, no socket, no client
RegIdle ==
    /\ running = FALSE
    /\ server = "none"
    /\ clients = <<>>
    /\ connOpen = [c \in Conns |-> FALSE]
    /\ sess = [c \in Conns |-> NoSession]
    /\ acceptor = [pc |-> "none", conn |-> 0, accepted |-> 0]
    /\ stopper = [pc |-> "idle", i |-> 0, live |-> {}]
    /\ count = 0

\* The user makes one upload and one download, each on its own thread.
Transfers == {"upload", "download"}

LockFree == "free"

NoTransfer ==
    [pc |-> "none", size |-> 0, n |-> 0, result |-> "none",
     save |-> [exists |-> FALSE, data |-> <<>>], expect |-> -1,
     progress |-> <<>>]

\* int((sent / size) * 100), the value given to progress_updated (the
\* quotient is a float; for the sizes of the model the product is exact
\* or lies above the integer below it)
Percent(n, size) == (n * 100) \div size

\* After NetworkWorker.__init__ and the start of its thread: not connected,
\* no address, nothing read, no transfer
CliIdle ==
    /\ connected = FALSE
    /\ server_ip = ""
    /\ is_transferring = FALSE
    /\ buffer = <<>>
    /\ socket_lock = LockFree
    /\ lpc = "check"
    /\ ui = [pc |-> "idle", refreshes |-> 0, shown |-> {}, probe |-> "none",
             failed |-> FALSE, running |-> TRUE, asked |-> "none"]
    /\ xfer = [t \in Transfers |-> NoTransfer]
    /\ c2s = <<>>
    /\ s2c = <<>>
    /\ srv = [pc |-> "none", buf |-> <<>>, target |-> <<>>, remaining |-> 0,
              rejected |-> {}]

\* The other end of the connection has sent nothing
NoPeer == [lines |-> 0, bytes |-> 0, closed |-> FALSE, wrote |-> <<>>]

\* No stream has been read
NoWire == [stream |-> <<>>, read |-> 0, buf |-> <<>>, served |-> <<>>,
           pc |-> "loop"]

SessIdle == peer = NoPeer /\ wire = NoWire

InitFS ==
    /\ fs = InitialFS
    /\ FSIdle
    /\ XferIdle
    /\ RegIdle
    /\ CliIdle
    /\ SessIdle

\* A dispatch that answers a LIST that follows a LIST from the earlier listing
ServeStale(r) ==
    IF r.command = "LIST" /\ req.command = "LIST"
    THEN /\ req' = r
         /\ UNCHANGED <<fs, resp, payload, acc, fsFrame>>
    ELSE \E o \in {Dispatch(fs, r)} :
        /\ fs' = o.fs
        /\ req' = r
        /\ resp' = o.resp
        /\ payload' = o.payload
        /\ acc' = o.acc
        /\ UNCHANGED fsFrame

\* handle_client dispatching one request to its handler
Serve(r) ==
    \E o \in {Dispatch(fs, r)} :
        /\ fs' = o.fs
        /\ req' = r
        /\ resp' = o.resp
        /\ payload' = o.payload
        /\ acc' = o.acc
        /\ UNCHANGED fsFrame

\* The requests clients send, command by command
ListInputs == {Request("LIST", p, FALSE, <<>>) : p \in FSPaths}

\* An upload whose sender delivers the first k of the size declared bytes and
\* then closes ("eof") or stays silent ("timeout")
UploadInputs ==
    {UploadRequest(p, TRUE, n, TRUE, a[1], Bytes(a[2]), a[3]) :
        p \in FSPaths, n \in FSNames,
        a \in {b \in (0..MaxSize) \X (0..MaxSize) \X {"eof", "timeout"} :
                  b[2] <= b[1] /\ (b[2] = b[1] => b[3] = "eof")}}

UploadMissingInfoInputs ==
    {UploadRequest(p, h[1], IF h[1] THEN <<"f">> ELSE <<>>, h[2], 0, <<>>, "eof") :
        p \in FSPaths, h \in (BOOLEAN \X BOOLEAN) \ {<<TRUE, TRUE>>}}

NamedInputs(command) ==
    {Request(command, p, TRUE, n) : p \in FSPaths, n \in FSNames}

DownloadInputs == NamedInputs("DOWNLOAD")
DeleteInputs == NamedInputs("DELETE")
MakeDirInputs == NamedInputs("MKDIR")

MissingNameInputs ==
    {Request(c, p, FALSE, <<>>) : c \in {"DOWNLOAD", "DELETE", "MKDIR"}, p \in FSPaths}

UnknownCommandInputs == {Request("PING", <<>>, FALSE, <<>>)}

List == \E r \in ListInputs : Serve(r)

Upload == \E r \in UploadInputs : Serve(r)

UploadMissingInfo == \E r \in UploadMissingInfoInputs : Serve(r)

Download == \E r \in DownloadInputs : Serve(r)

Delete == \E r \in DeleteInputs : Serve(r)

MakeDir == \E r \in MakeDirInputs : Serve(r)

MissingName == \E r \in MissingNameInputs : Serve(r)

UnknownCommand == \E r \in UnknownCommandInputs : Serve(r)

NextFS ==
    \/ List
    \/ Upload
    \/ UploadMissingInfo
    \/ Download
    \/ Delete
    \/ MakeDir
    \/ MissingName
    \/ UnknownCommand

SpecFS == InitFS /\ [][NextFS]_vars

(***************************************************************************)
(* Claims about the path sandbox (SpecFS).                                 *)
(***************************************************************************)
\* The node an absolute, normalised path string names
NodeOfPath(path) == SelectSeq(Split(path), LAMBDA c : c # <<>>)

HasDotDot(relPath) == \E i \in DOMAIN Split(relPath) : Split(relPath)[i] = DOTDOT

\* The location a path field resolves to is neither the root nor below it
ResolvesOutside(relPath) ==
    ~Within(NodeOfPath(AbsPath(PathJoin(BasePath, LStripSlash(relPath)))), RootNode)

EscapingPaths == {p \in FSPaths : HasDotDot(p) /\ ResolvesOutside(p)}

FileCommands == {"LIST", "UPLOAD", "DOWNLOAD", "DELETE", "MKDIR"}

\* C1: every command whose path has ".." segments and resolves outside the
\* storage root is answered with one error response and leaves the file
\* system as it was.
C1_EscapingPathStep ==
    (req'.command \in FileCommands /\ req'.path \in EscapingPaths)
        => /\ fs' = fs
           /\ Len(resp') = 1
           /\ resp'[1].status = "error"

C1_EscapingPathDenied == [][C1_EscapingPathStep]_vars

\* C2: for UPLOAD, DOWNLOAD, DELETE and MKDIR the target built from path and
\* filename or dirname is checked, so the handler's file-system calls never
\* go to a node outside the storage root.  Stated for the requests whose
\* path field alone stays inside the root.
C2_TargetInsideRoot ==
    (req.command \in {"UPLOAD", "DOWNLOAD", "DELETE", "MKDIR"}
        /\ ~ResolvesOutside(req.path))
        => \A n \in acc : Within(n, RootNode)

(***************************************************************************)
(* Claims about incomplete uploads (SpecFS).                               *)
(***************************************************************************)
\* The names a LIST of the directory of the last request shows now
ListedNames ==
    LET o == HandleList(fs, Request("LIST", req.path, FALSE, <<>>))
    IN  IF o.resp[1].status = "success"
        THEN {e.name : e \in o.resp[1].items}
        ELSE {}

\* The last request was an UPLOAD that the server accepted (it answered
\* ready and opened the target) and whose sender stopped before size bytes.
ShortUpload ==
    /\ req.command = "UPLOAD"
    /\ Len(resp) = 2
    /\ resp[1].status = "ready"
    /\ Len(req.sent) < req.size

\* C33: a DELETE, whatever its path and filename, leaves the storage root
\* in place.
C33_RootSurvivesDelete ==
    [][(req'.command = "DELETE" /\ RootNode \in DOMAIN fs)
          => RootNode \in DOMAIN fs']_vars

\* C3: after an UPLOAD whose sender stops after k < size bytes (it closed
\* the connection or it stalls), the server has answered error, the target
\* file is gone and a LIST of the directory does not show it.
C3_ShortUploadRolledBack ==
    ShortUpload =>
        /\ resp[2].status = "error"
        /\ \A n \in acc : n \notin DOMAIN fs
        /\ req.name \notin ListedNames

\* C34: an UPLOAD onto a name that is a stored file, accepted and ended
\* before size bytes have arrived, leaves the storage tree as it was before
\* the command.
C34_ShortUploadRestores ==
    [][(ShortUpload' /\ \E n \in acc' : IsFileNode(fs, n) /\ Within(n, RootNode))
          => fs' = fs]_vars

\* The requests that name their target by path and name
PathInputs == ListInputs \cup DownloadInputs \cup DeleteInputs \cup MakeDirInputs

\* C22: for every command, the response for a path that escapes the storage
\* root is the response for a path inside the root whose target does not
\* exist.
C22_SandboxIndistinguishable ==
    \A r1, r2 \in PathInputs :
        (/\ r1.command = r2.command
         /\ r1.name = r2.name
         /\ ~FullPath[r1.path].ok
         /\ FullPath[r2.path].ok
         /\ ~PathExists(fs, PathJoin(FullPath[r2.path].path, r2.name)))
            => Dispatch(fs, r1).resp = Dispatch(fs, r2).resp

(***************************************************************************)
(* SpecTree: the command handlers on the storage tree, one request per     *)
(* step, with the paths and names of an ordinary session: the root and a   *)
(* folder "a" of it, the names "a" and "f" and the empty name.             *)
(***************************************************************************)
\* The values of the `path` field: "" and "a"
TreePaths == { <<>>, <<"a">> }

\* The values of the `filename` and `dirname` fields: "a", "f" and ""
TreeNames == { <<"a">>, <<"f">>, <<>> }

TreeListInputs == {Request("LIST", p, FALSE, <<>>) : p \in TreePaths}

TreeUploadInputs ==
    {UploadRequest(p, TRUE, n, TRUE, a[1], Bytes(a[2]), a[3]) :
        p \in TreePaths, n \in TreeNames,
        a \in {b \in (0..MaxSize) \X (0..MaxSize) \X {"eof", "timeout"} :
                  b[2] <= b[1] /\ (b[2] = b[1] => b[3] = "eof")}}

TreeNamedInputs(command) ==
    {Request(command, p, TRUE, n) : p \in TreePaths, n \in TreeNames}

TreeDownloadInputs == TreeNamedInputs("DOWNLOAD")
TreeDeleteInputs == TreeNamedInputs("DELETE")
TreeMakeDirInputs == TreeNamedInputs("MKDIR")
TreeUnknownInputs == {Request(c, p, FALSE, <<>>) : c \in {"PING", "list"}, p \in TreePaths}

InitTree ==
    /\ fs = InitialFS
    /\ FSIdle
    /\ XferIdle
    /\ RegIdle
    /\ CliIdle
    /\ SessIdle

TreeList == \E r \in TreeListInputs : Serve(r)

TreeUpload == \E r \in TreeUploadInputs : Serve(r)

TreeDownload == \E r \in TreeDownloadInputs : Serve(r)

TreeDelete == \E r \in TreeDeleteInputs : Serve(r)

TreeMakeDir == \E r \in TreeMakeDirInputs : Serve(r)

TreeUnknown == \E r \in TreeUnknownInputs : Serve(r)

NextTree ==
    \/ TreeList
    \/ TreeUpload
    \/ TreeDownload
    \/ TreeDelete
    \/ TreeMakeDir
    \/ TreeUnknown

SpecTree == InitTree /\ [][NextTree]_vars

(***************************************************************************)
(* Claims about the commands on the storage tree (SpecTree).               *)
(***************************************************************************)
\* The node that os.path.join(get_full_path(path), name) names
TargetNode(relPath, name) ==
    NodeOfPath(AbsPath(PathJoin(FullPath[relPath].path, name)))

\* C11: MKDIR of a dirname that exists as a directory replies success and
\* leaves the whole tree as it was, and a MKDIR that succeeded, issued once
\* more, succeeds and leaves the tree as the first one left it.
C11_MkdirStep ==
    req'.command = "MKDIR" =>
        /\ IsDirNode(fs, TargetNode(req'.path, req'.name)) =>
               /\ fs' = fs
               /\ Len(resp') = 1
               /\ resp'[1].status = "success"
        /\ resp'[1].status = "success" =>
               /\ HandleMkdir(fs', req').fs = fs'
               /\ HandleMkdir(fs', req').resp = resp'

C11_MkdirIdempotent == [][C11_MkdirStep]_vars

\* A MKDIR has succeeded on a folder that has entries
C11_Witness ==
    /\ req.command = "MKDIR"
    /\ req.name # <<>>
    /\ resp[1].status = "success"
    /\ Children(fs, TargetNode(req.path, req.name)) # {}

\* The entries of the directory a path names, read off the file system
LiveEntries(f, relPath) ==
    LET d == TargetNode(relPath, <<>>)
    IN  {[name |-> k[Len(k)], is_dir |-> f[k].dir,
          size |-> IF f[k].dir THEN 0 ELSE Len(f[k].data)] :
            k \in {j \in DOMAIN f : Len(j) = Len(d) + 1 /\ SubSeq(j, 1, Len(d)) = d}}

\* C12: a successful LIST shows the entries the directory has at the time
\* of the command, and a LIST that follows a LIST of the same path with no
\* command in between shows the same entries.
C12_ListStep ==
    (req'.command = "LIST" /\ resp'[1].status = "success") =>
        /\ resp'[1].items = LiveEntries(fs', req'.path)
        /\ (req.command = "LIST" /\ req.path = req'.path
                /\ resp[1].status = "success")
               => resp'[1].items = resp[1].items

C12_ListLive == [][C12_ListStep]_vars

\* A LIST has shown a folder that holds both a folder and a file
C12_Witness ==
    /\ req.command = "LIST"
    /\ resp[1].status = "success"
    /\ \E e1, e2 \in resp[1].items : e1.is_dir /\ ~e2.is_dir /\ e2.size > 0

\* C13: LIST of a directory that does not exist creates it and replies
\* success with no items and the path as it was sent, and after every
\* successful LIST the listed directory exists.
C13_ListStep ==
    req'.command = "LIST" =>
        /\ TargetNode(req'.path, <<>>) \notin DOMAIN fs =>
               /\ resp' = <<ListingResp({}, req'.path)>>
               /\ IsDirNode(fs', TargetNode(req'.path, <<>>))
        /\ resp'[1].status = "success" =>
               IsDirNode(fs', TargetNode(req'.path, <<>>))

C13_ListCreates == [][C13_ListStep]_vars

\* A LIST of "a" has been answered with an empty folder "a" in place
C13_Witness ==
    /\ req.command = "LIST"
    /\ req.path = <<"a">>
    /\ resp = <<ListingResp({}, req.path)>>
    /\ IsDirNode(fs, TargetNode(req.path, <<>>))

\* os.path.exists of the target of a request
TargetExists(f, relPath, name) ==
    PathExists(f, PathJoin(FullPath[relPath].path, name))

\* C14: DOWNLOAD of a name that is missing or is a directory writes the one
\* response error "File not found" and no payload, and changes nothing.
C14_DownloadStep ==
    (/\ req'.command = "DOWNLOAD"
     /\ \/ ~TargetExists(fs, req'.path, req'.name)
        \/ IsDirNode(fs, TargetNode(req'.path, req'.name)))
        => /\ resp' = <<ErrorResp("File not found")>>
           /\ payload' = <<>>
           /\ fs' = fs

C14_DownloadNotFound == [][C14_DownloadStep]_vars

\* A DOWNLOAD of a folder that has a file in it has been answered
C14_Witness ==
    /\ req.command = "DOWNLOAD"
    /\ req.name # <<>>
    /\ IsDirNode(fs, TargetNode(req.path, req.name))
    /\ \E k \in Children(fs, TargetNode(req.path, req.name)) : ~fs[k].dir
    /\ resp = <<ErrorResp("File not found")>>

\* C15: DELETE of a target that exists replies success and removes the
\* target with everything below it and nothing else; DELETE of a target
\* that does not exist replies error and removes nothing.
C15_DeleteStep ==
    req'.command = "DELETE" =>
        LET t == TargetNode(req'.path, req'.name)
        IN  IF TargetExists(fs, req'.path, req'.name)
            THEN /\ Len(resp') = 1
                 /\ resp'[1].status = "success"
                 /\ DOMAIN fs' = {k \in DOMAIN fs : ~Within(k, t)}
                 /\ \A k \in DOMAIN fs' : fs'[k] = fs[k]
            ELSE /\ Len(resp') = 1
                 /\ resp'[1].status = "error"
                 /\ fs' = fs

C15_DeleteExact == [][C15_DeleteStep]_vars

\* A DELETE has removed a folder together with an entry of it, and a
\* sibling of the folder is still there
C15_Witness ==
    /\ req.command = "DELETE"
    /\ req.name # <<>>
    /\ resp[1].status = "success"
    /\ Cardinality(acc) >= 2
    /\ Children(fs, Parent(TargetNode(req.path, req.name))) # {}

\* The directory the last request names with its path
ListedDir == Resolve(fs, FullPath[req.path].path).node

\* The nodes directly in a directory
DirectlyIn(d) == {k \in DOMAIN fs : k # d /\ Parent(k) = d}

\* C37: a successful LIST answers with one entry for each node directly in
\* the listed directory and no other, each with the name of the node, its
\* is_dir flag and its size (0 for a directory), and with the path of the
\* request as current_path.
C37_ListingExact ==
    (req.command = "LIST" /\ Len(resp) = 1 /\ resp[1].status = "success")
        => /\ resp[1].current_path = req.path
           /\ resp[1].items =
                 {[name |-> k[Len(k)], is_dir |-> fs[k].dir,
                   size |-> IF fs[k].dir THEN 0 ELSE Len(fs[k].data)] :
                      k \in DirectlyIn(ListedDir)}
           /\ Cardinality(resp[1].items) = Cardinality(DirectlyIn(ListedDir))

\* The root has been listed while it holds a file with content and a
\* folder with a file in it.
C37_Witness ==
    /\ req.command = "LIST"
    /\ req.path = <<>>
    /\ Len(resp) = 1
    /\ resp[1].status = "success"
    /\ \E e \in resp[1].items : ~e.is_dir /\ e.size > 0
    /\ \E e \in resp[1].items : e.is_dir
    /\ \E k \in DOMAIN fs : Within(k, ListedDir) /\ Len(k) = Len(ListedDir) + 2

(***************************************************************************)
(* SpecXfer: NSess sessions of the server, each a thread of handle_client  *)
(* on its own connection, receive uploads at the same time.  A step of a   *)
(* session is the part of handle_upload up to one blocking call; a step    *)
(* of a client puts one payload byte on its connection, or stops.  Two     *)
(* sessions never have the same target open at once (writers of one path   *)
(* are not coordinated by the server).                                     *)
(***************************************************************************)
\* The storage holds a folder "a".
XferFS == InitialFS @@ (<<<<"h">>, <<"s">>, <<"a">>>> :> DirNode)

\* The i-th payload byte of the client on connection s
PeerByte(s, i) == 10 * s + i
PeerData(s, k) == [i \in 1..k |-> PeerByte(s, i)]

\* Every session reading one and the same connection
SessionConnShared(s) == 1

\* conn, the socket of the session: the connection its handlers read
SessionConn(s) == s

\* f.write(chunk) on the file the handler opened
WriteChunk(f, n, chunk) ==
    IF n \in DOMAIN f THEN [f EXCEPT ![n] = FileNode(f[n].data \o chunk)] ELSE f

TargetOpen(n) == \E t \in Sessions : xs[t].pc = "recv" /\ xs[t].target = n

InitXfer ==
    /\ fs = XferFS
    /\ FSIdle
    /\ XferIdle
    /\ RegIdle
    /\ CliIdle
    /\ SessIdle

\* The client sends the UPLOAD command of its connection
\* (NetworkWorker.upload_file) and the session runs handle_upload up to its
\* first recv: the checks, the ready handshake and open(filepath, "wb").
XBegin(s) ==
    \E p \in XPaths, size \in 0..MaxPayload :
        /\ xs[s].pc = "idle"
        /\ xpeer[s].state = "idle"
        /\ UNCHANGED <<xferFrame, xnet, xover>>
        /\ \E g \in {FullPath[p]}, begun \in {[xs[s] EXCEPT !.size = size]} :
            IF ~g.ok
            THEN /\ xs' = [xs EXCEPT ![s] = [begun EXCEPT !.result = AccessDenied]]
                 /\ xpeer' = [xpeer EXCEPT ![s].state = "done"]
                 /\ fs' = fs
            ELSE \E w \in {Resolve(fs, PathJoin(g.path, XName))} :
                 /\ w.ok
                 /\ ~IsDirNode(fs, w.node)
                 /\ ~TargetOpen(w.node)
                 /\ xs' = [xs EXCEPT ![s] = [begun EXCEPT !.pc = "recv",
                                                          !.target = w.node]]
                 /\ xpeer' = [xpeer EXCEPT ![s].state =
                                 IF size = 0 THEN "done" ELSE "sending"]
                 /\ fs' = CreateFile(fs, w.node)

\* The sending loop of NetworkWorker.upload_file: f.read(CHUNK) and
\* sendall put the next chunk of the payload on the connection; after the
\* last one the client is done with its upload.
PeerSend(s) ==
    /\ xpeer[s].state = "sending"
    /\ \E k \in {Min(CHUNK, xs[s].size - xpeer[s].sent)} :
        /\ xnet' = [xnet EXCEPT ![s] =
                       @ \o [i \in 1..k |-> PeerByte(s, xpeer[s].sent + i)]]
        /\ xpeer' = [xpeer EXCEPT ![s].sent = @ + k,
                                  ![s].state = IF xpeer[s].sent + k = xs[s].size
                                               THEN "done" ELSE "sending"]
    /\ UNCHANGED <<fs, xferFrame, xs, xover>>

\* The client stops sending in the middle of its payload and stays silent.
PeerStall(s) ==
    /\ xpeer[s].state = "sending"
    /\ xpeer' = [xpeer EXCEPT ![s].state = "stalled"]
    /\ UNCHANGED <<fs, xferFrame, xs, xnet, xover>>

\* The client closes its end of the connection in the middle of its payload.
PeerClose(s) ==
    /\ xpeer[s].state = "sending"
    /\ xpeer' = [xpeer EXCEPT ![s].state = "closed"]
    /\ UNCHANGED <<fs, xferFrame, xs, xnet, xover>>

\* One round of the receive loop: recv(min(CHUNK, size - received)) yields
\* what has arrived of the bytes asked for, and they are written.
XRecv(s) ==
    /\ xs[s].pc = "recv"
    /\ xs[s].received < xs[s].size
    /\ xnet[SessionConn(s)] # <<>>
    /\ \E got \in {Min(Min(CHUNK, xs[s].size - xs[s].received),
                       Len(xnet[SessionConn(s)]))} :
        /\ fs' = WriteChunk(fs, xs[s].target, SubSeq(xnet[SessionConn(s)], 1, got))
        /\ xnet' = [xnet EXCEPT ![SessionConn(s)] = SubSeq(@, got + 1, Len(@))]
        /\ xs' = [xs EXCEPT ![s].received = @ + got]
        /\ xover' = (xover \/ \E t \in Sessions \ {s} :
                                   xs[t].pc = "recv" /\ xs[t].received > 0)
    /\ UNCHANGED <<xferFrame, xpeer>>

\* recv returns nothing, the peer has closed: the loop breaks, the partial
\* file is removed and the reply is error.
XEof(s) ==
    /\ xs[s].pc = "recv"
    /\ xs[s].received < xs[s].size
    /\ xnet[SessionConn(s)] = <<>>
    /\ xpeer[SessionConn(s)].state = "closed"
    /\ fs' = IF xs[s].target \in DOMAIN fs THEN RemoveTree(fs, xs[s].target) ELSE fs
    /\ xs' = [xs EXCEPT ![s].pc = "idle", ![s].result = "Transfer incomplete"]
    /\ UNCHANGED <<xferFrame, xnet, xpeer, xover>>

\* A timeout that is left to the loop of handle_client: the handler sends
\* nothing.
XTimeoutUnanswered(s) ==
    /\ xs[s].pc = "recv"
    /\ xs[s].received < xs[s].size
    /\ xnet[SessionConn(s)] = <<>>
    /\ xpeer[SessionConn(s)].state = "stalled"
    /\ xs' = [xs EXCEPT ![s].pc = "idle"]
    /\ UNCHANGED <<fs, xferFrame, xnet, xpeer, xover>>

\* recv raises socket.timeout, the peer is silent: the exception leaves the
\* with block (the file is closed as it is) and the reply is error.
XTimeout(s) ==
    /\ xs[s].pc = "recv"
    /\ xs[s].received < xs[s].size
    /\ xnet[SessionConn(s)] = <<>>
    /\ xpeer[SessionConn(s)].state = "stalled"
    /\ xs' = [xs EXCEPT ![s].pc = "idle", ![s].result = "timed out"]
    /\ UNCHANGED <<fs, xferFrame, xnet, xpeer, xover>>

\* The loop ends with received = size: the reply is success.
XFinish(s) ==
    /\ xs[s].pc = "recv"
    /\ xs[s].received = xs[s].size
    /\ xs' = [xs EXCEPT ![s].pc = "idle", ![s].result = "Upload complete"]
    /\ UNCHANGED <<fs, xferFrame, xnet, xpeer, xover>>

NextXfer ==
    \E s \in Sessions :
        \/ XBegin(s)
        \/ PeerSend(s)
        \/ PeerStall(s)
        \/ PeerClose(s)
        \/ XRecv(s)
        \/ XEof(s)
        \/ XTimeout(s)
        \/ XFinish(s)

SpecXfer == InitXfer /\ [][NextXfer]_vars

(***************************************************************************)
(* Claims about concurrent uploads (SpecXfer).                             *)
(***************************************************************************)
\* The upload of session s has ended and its client has sent every byte of
\* the size it declared.
UploadSentInFull(s) ==
    /\ xs[s].pc # "recv"
    /\ xs[s].target # <<>>
    /\ xpeer[s].sent = xs[s].size

\* No other session has uploaded to the target of session s.
OwnTarget(s) == \A t \in Sessions \ {s} : xs[t].target # xs[s].target

\* C7: concurrent sessions that upload distinct files all end with success,
\* and each stored file holds exactly the bytes of its own connection, in
\* order, under every interleaving.
C7_ConcurrentUploadsIntact ==
    \A s \in Sessions :
        (UploadSentInFull(s) /\ OwnTarget(s))
            => /\ xs[s].result = "Upload complete"
               /\ xs[s].target \in DOMAIN fs
               /\ fs[xs[s].target].data = PeerData(s, xs[s].size)

\* Two uploads of full size that overlapped in time have both ended.
C7_Witness ==
    /\ \A s \in Sessions :
        /\ UploadSentInFull(s)
        /\ OwnTarget(s)
        /\ xs[s].size = MaxPayload
    /\ xover

\* The handler of session s fails in this step: get_full_path raises on the
\* path of the command, or the receive loop is left before the declared
\* size has arrived (empty recv, socket.timeout).
HandlerFails(s) ==
    /\ xs[s] # xs'[s]
    /\ xs'[s].pc = "idle"
    /\ \/ xs[s].pc = "idle"
       \/ xs[s].pc = "recv" /\ xs[s].received < xs[s].size

\* The replies with status error that handle_upload sends
ErrorReplies == {AccessDenied, "Transfer incomplete", "timed out"}

\* C27: a failure inside a handler is answered with one error response on
\* the connection of the session, the session stays in its loop, and no
\* other session is touched: its state, its connection and its peer are
\* as before.
C27_FailureContained ==
    [][\A s \in Sessions :
          HandlerFails(s) =>
              /\ xs[s].result = "none"
              /\ xs'[s].result \in ErrorReplies
              /\ \A t \in Sessions \ {s} :
                    /\ xs'[t] = xs[t]
                    /\ xnet'[SessionConn(t)] = xnet[SessionConn(t)]
                    /\ xpeer'[t] = xpeer[t]]_vars

\* The handler of one session has failed on a timeout, and a sibling has
\* received an upload of full size with success.
C27_Witness ==
    \E s, t \in Sessions :
        /\ xs[s].result = "timed out"
        /\ xs[t].result = "Upload complete"
        /\ xs[t].size = MaxPayload
        /\ xpeer[t].sent = MaxPayload

(***************************************************************************)
(* SpecReg: one run of the server.  The interface thread starts it and     *)
(* stops it; the thread of accept_clients registers each connection in     *)
(* self.clients and starts its session; each session, a thread of          *)
(* handle_client, leaves its loop on one of its exit paths and runs the    *)
(* finally block.  No lock guards self.clients: a step is what one thread  *)
(* does between two points where the interpreter may switch threads       *)
(* (single list operations are atomic, a for loop over the list is not).   *)
(***************************************************************************)
Range(l) == {l[i] : i \in 1..Len(l)}

\* A list on which remove has no effect
ListKeep(l, c) == l

\* list.remove(c): the list without the first occurrence of c
ListRemove(l, c) ==
    IF c \notin Range(l) THEN l
    ELSE LET k == CHOOSE i \in 1..Len(l) :
                      l[i] = c /\ \A j \in 1..(i - 1) : l[j] # c
         IN  SubSeq(l, 1, k - 1) \o SubSeq(l, k + 1, Len(l))

\* The ways a session leaves its loop
PeerExits == {"peer closed", "timeout", "malformed", "io error"}

InitReg ==
    /\ fs = InitialFS
    /\ FSIdle
    /\ XferIdle
    /\ RegIdle
    /\ CliIdle
    /\ SessIdle

\* start_server: listen, running = True, start the thread of accept_clients
StartServer ==
    /\ ~running
    /\ server = "none"
    /\ server' = "listening"
    /\ running' = TRUE
    /\ acceptor' = [acceptor EXCEPT !.pc = "check"]
    /\ UNCHANGED <<regFrame, clients, connOpen, sess, stopper, count>>

\* accept_clients: `while self.running`, then the call of accept, which
\* blocks
AcceptCheck ==
    /\ acceptor.pc = "check"
    /\ acceptor' = [acceptor EXCEPT !.pc = IF running /\ server = "listening"
                                           THEN "accept" ELSE "exit"]
    /\ UNCHANGED <<regFrame, running, server, clients, connOpen, sess, stopper,
                   count>>

\* accept returns a connection.  A thread blocked in accept while another
\* thread closes the listening socket either gets an error (AcceptFail) or
\* stays blocked and is handed the next connection that arrives.
Accept ==
    /\ acceptor.pc = "accept"
    /\ acceptor.accepted < MaxConns
    /\ \E c \in {acceptor.accepted + 1} :
        /\ connOpen' = [connOpen EXCEPT ![c] = TRUE]
        /\ acceptor' = [pc |-> "append", conn |-> c, accepted |-> c]
    /\ UNCHANGED <<regFrame, running, server, clients, sess, stopper, count>>

\* accept raises on the closed listening socket: the loop breaks
AcceptFail ==
    /\ acceptor.pc = "accept"
    /\ server = "closed"
    /\ acceptor' = [acceptor EXCEPT !.pc = "exit"]
    /\ UNCHANGED <<regFrame, running, server, clients, connOpen, sess, stopper,
                   count>>

\* self.clients.append(conn)
AcceptAppend ==
    /\ acceptor.pc = "append"
    /\ clients' = Append(clients, acceptor.conn)
    /\ acceptor' = [acceptor EXCEPT !.pc = "emit"]
    /\ UNCHANGED <<regFrame, running, server, connOpen, sess, stopper, count>>

\* client_count_changed.emit(len(self.clients)) and the start of the
\* session's thread
AcceptEmit ==
    /\ acceptor.pc = "emit"
    /\ count' = Len(clients)
    /\ sess' = [sess EXCEPT ![acceptor.conn].pc = "loop"]
    /\ acceptor' = [acceptor EXCEPT !.pc = "check", !.conn = 0]
    /\ UNCHANGED <<regFrame, running, server, clients, connOpen, stopper>>

\* handle_client: `while self.running`
SessionLoop(c) ==
    /\ sess[c].pc = "loop"
    /\ sess' = [sess EXCEPT ![c] = IF running
                                   THEN [pc |-> "recv", exit |-> "none"]
                                   ELSE [pc |-> "close", exit |-> "shutdown"]]
    /\ UNCHANGED <<regFrame, running, server, clients, connOpen, acceptor,
                   stopper, count>>

\* conn.recv returns a command line, which is served
SessionCommand(c) ==
    /\ sess[c].pc = "recv"
    /\ connOpen[c]
    /\ sess' = [sess EXCEPT ![c].pc = "loop"]
    /\ UNCHANGED <<regFrame, running, server, clients, connOpen, acceptor,
                   stopper, count>>

\* conn.recv returns nothing, times out, returns a line that is not JSON,
\* or raises: each breaks out of the loop.  On a socket that stop_server
\* has closed recv can only raise.
SessionExit(c) ==
    /\ sess[c].pc = "recv"
    /\ \E e \in (IF connOpen[c] THEN PeerExits ELSE {"io error"}) :
        sess' = [sess EXCEPT ![c] = [pc |-> "close", exit |-> e]]
    /\ UNCHANGED <<regFrame, running, server, clients, connOpen, acceptor,
                   stopper, count>>

\* finally: conn.close()
SessionClose(c) ==
    /\ sess[c].pc = "close"
    /\ connOpen' = [connOpen EXCEPT ![c] = FALSE]
    /\ sess' = [sess EXCEPT ![c].pc = "remove"]
    /\ UNCHANGED <<regFrame, running, server, clients, acceptor, stopper, count>>

\* finally: if conn in self.clients: self.clients.remove(conn)
SessionRemove(c) ==
    /\ sess[c].pc = "remove"
    /\ clients' = IF c \in Range(clients) THEN ListRemove(clients, c) ELSE clients
    /\ sess' = [sess EXCEPT ![c].pc = "emit"]
    /\ UNCHANGED <<regFrame, running, server, connOpen, acceptor, stopper, count>>

\* finally: client_count_changed.emit(len(self.clients)); the thread ends
SessionEmit(c) ==
    /\ sess[c].pc = "emit"
    /\ count' = Len(clients)
    /\ sess' = [sess EXCEPT ![c].pc = "done"]
    /\ UNCHANGED <<regFrame, running, server, clients, connOpen, acceptor,
                   stopper>>

\* stop_server: self.running = False, and the iterator of
\* `for conn in self.clients`
StopBegin ==
    /\ running
    /\ stopper.pc = "idle"
    /\ running' = FALSE
    /\ stopper' = [pc |-> "iter", i |-> 0, live |-> Range(clients)]
    /\ UNCHANGED <<regFrame, server, clients, connOpen, sess, acceptor, count>>

\* One round of `for conn in self.clients: conn.close()`: the list
\* iterator yields the element at its index, if the list is that long
StopNext ==
    /\ stopper.pc = "iter"
    /\ IF stopper.i < Len(clients)
       THEN /\ connOpen' = [connOpen EXCEPT ![clients[stopper.i + 1]] = FALSE]
            /\ stopper' = [stopper EXCEPT !.i = @ + 1]
       ELSE /\ stopper' = [stopper EXCEPT !.pc = "close"]
            /\ connOpen' = connOpen
    /\ UNCHANGED <<regFrame, running, server, clients, sess, acceptor, count>>

\* stop_server: self.server.close()
StopCloseServer ==
    /\ stopper.pc = "close"
    /\ server' = "closed"
    /\ stopper' = [stopper EXCEPT !.pc = "emit"]
    /\ UNCHANGED <<regFrame, running, clients, connOpen, sess, acceptor, count>>

\* stop_server: client_count_changed.emit(0)
StopEmit ==
    /\ stopper.pc = "emit"
    /\ count' = 0
    /\ stopper' = [stopper EXCEPT !.pc = "done"]
    /\ UNCHANGED <<regFrame, running, server, clients, connOpen, sess, acceptor>>

NextReg ==
    \/ StartServer
    \/ AcceptCheck
    \/ Accept
    \/ AcceptFail
    \/ AcceptAppend
    \/ AcceptEmit
    \/ \E c \in Conns :
        \/ SessionLoop(c)
        \/ SessionCommand(c)
        \/ SessionExit(c)
        \/ SessionClose(c)
        \/ SessionRemove(c)
        \/ SessionEmit(c)
    \/ StopBegin
    \/ StopNext
    \/ StopCloseServer
    \/ StopEmit

SpecReg == InitReg /\ [][NextReg]_vars

(***************************************************************************)
(* Claims about the registry of connections (SpecReg).                     *)
(***************************************************************************)
\* C8: every session that has terminated, on whatever exit path, has
\* closed its connection and is no longer in the list of clients.
C8_TerminatedSessionGone ==
    \A c \in Conns :
        sess[c].pc = "done" => ~connOpen[c] /\ c \notin Range(clients)

\* Every session has terminated, one of them because of the shutdown and
\* one because of its peer.
C8_Witness ==
    /\ \A c \in Conns : sess[c].pc = "done"
    /\ \E c \in Conns : sess[c].exit = "shutdown"
    /\ \E c \in Conns : sess[c].exit \in PeerExits

\* C9: stop_server stops the accept loop, closes every connection that was
\* registered when it began, and only then closes the listening socket.
C9_ShutdownClosesRegistered ==
    server = "closed" =>
        /\ ~running
        /\ \A c \in stopper.live : ~connOpen[c]

\* C10: while stop_server iterates over the list of clients no other
\* thread adds to it or removes from it.
C10_RegistryExclusive ==
    [][(stopper.pc = "iter" /\ stopper.i > 0) => clients' = clients]_vars

\* A thread emits client_count_changed in this step
EmitsCount ==
    \/ acceptor.pc = "emit" /\ acceptor'.pc # "emit"
    \/ \E c \in Conns : sess[c].pc = "emit" /\ sess'[c].pc # "emit"
    \/ stopper.pc = "emit" /\ stopper'.pc # "emit"

\* No accept, no exit of a session and no stop_server is under way
RegQuiescent ==
    /\ acceptor.pc \notin {"append", "emit"}
    /\ \A c \in Conns : sess[c].pc \in {"none", "loop", "recv", "done"}
    /\ stopper.pc \in {"idle", "done"}

\* C38: every count emitted on client_count_changed is the number of
\* registered sessions at that moment, and when nothing is under way the
\* count emitted last is the number of sessions still registered.
C38_CountTracksRegistry ==
    /\ [][EmitsCount => count' = Len(clients')]_vars
    /\ [](RegQuiescent => count = Len(clients))

(***************************************************************************)
(* SpecClient: the network engine of the client and the session of the     *)
(* server it talks to.  The listener thread (NetworkWorker.run) polls the  *)
(* socket under socket_lock; the interface thread sends LIST commands      *)
(* (send_json) and starts one thread per upload or download; a transfer    *)
(* holds socket_lock from its command to the end of its exchange.  A line  *)
(* of the protocol travels as two pieces, its text and its end, so that a  *)
(* read can stop inside a line; payload travels byte by byte.  The server  *)
(* answers with the handlers of SpecFS, receiving an upload chunk by       *)
(* chunk, and gives a receive up after the 300 s of silence the session    *)
(* allows, which is once the client has nothing under way.  The 10 s       *)
(* timeout of a transfer's reads is not reached and the client does not    *)
(* disconnect.                                                             *)
(***************************************************************************)
\* One payload byte on a stream or in a file
ByteTok(b) == [part |-> "byte", msg |-> NoRequest, byte |-> b]

\* json.dumps(m) + "\n" as it travels: the text of the line, then its end
Line(m) ==
    << [part |-> "head", msg |-> m, byte |-> 0],
       [part |-> "tail", msg |-> m, byte |-> 0] >>

\* The content of the local file of size n that the user uploads
Content(n) == [i \in 1..n |-> ByteTok(i)]

\* "\n" in data
HasLine(data) == \E i \in 1..Len(data) : data[i].part = "tail"

\* The index at which the first line of data ends
LineEnd(data) ==
    CHOOSE i \in 1..Len(data) :
        data[i].part = "tail" /\ \A j \in 1..(i - 1) : data[j].part # "tail"

\* json.loads(line): only a whole line decodes
Decode(line) ==
    IF /\ Len(line) = 2
       /\ line[1].part = "head"
       /\ line[2].part = "tail"
       /\ line[1].msg = line[2].msg
    THEN [ok |-> TRUE, msg |-> line[1].msg]
    ELSE [ok |-> FALSE, msg |-> NoRequest]

\* The keys of a decoded JSON object
Keys(m) == IF "keys" \in DOMAIN m THEN m.keys ELSE {}

\* resp.get("status")
StatusOf(m) == IF "status" \in Keys(m) THEN m.status ELSE "None"

\* buffer.split("\n", 1) repeated: the complete lines and what is left
RECURSIVE SplitLines(_)
SplitLines(data) ==
    IF ~HasLine(data) THEN [lines |-> <<>>, rest |-> data]
    ELSE LET k == LineEnd(data)
             r == SplitLines(SubSeq(data, k + 1, Len(data)))
         IN  [lines |-> <<SubSeq(data, 1, k)>> \o r.lines, rest |-> r.rest]

\* process_buffer on one line: a listing goes to the window
\* (files_updated), a line that does not decode is dropped
ProcessLine(line, u) ==
    LET d == Decode(line)
    IN  IF ~d.ok
        THEN [u EXCEPT !.probe = IF @ = "sent" THEN "error" ELSE @]
        ELSE IF "items" \in Keys(d.msg)
        THEN [u EXCEPT !.shown = d.msg.items,
                       !.probe = IF @ = "sent" THEN "listed" ELSE @]
        ELSE u

\* A process_buffer that gives up at the first line that does not decode
RECURSIVE ProcessUntilBad(_, _)
ProcessUntilBad(lines, u) ==
    IF lines = <<>> THEN u
    ELSE IF ~Decode(Head(lines)).ok THEN ProcessLine(Head(lines), u)
    ELSE ProcessUntilBad(Tail(lines), ProcessLine(Head(lines), u))

RECURSIVE ProcessLines(_, _)
ProcessLines(lines, u) ==
    IF lines = <<>> THEN u
    ELSE ProcessLines(Tail(lines), ProcessLine(Head(lines), u))

ListRequest == Request("LIST", <<>>, FALSE, <<>>)
DownloadRequest == Request("DOWNLOAD", <<>>, TRUE, XName)
UploadCommand(size) == UploadRequest(<<>>, TRUE, XName, TRUE, size, <<>>, "none")

\* The storage holds a file "f" from an earlier session.
CliFS ==
    (<<>> :> DirNode) @@ (<<<<"h">>>> :> DirNode) @@ (RootNode :> DirNode)
    @@ (<<<<"h">>, <<"s">>, XName>> :> FileNode(<<ByteTok(9)>>))

\* An acquire that does not wait for the holder to release
AcquireAnyway == TRUE

\* socket_lock.acquire() succeeds
CanAcquire == socket_lock = LockFree

\* Some transfer has completed and none is under way
TransferCompleted ==
    /\ \E t \in Transfers : xfer[t].pc = "done" /\ xfer[t].result \in {"ok", "failed"}
    /\ \A t \in Transfers : xfer[t].pc \in {"none", "done"}

InitClient ==
    /\ fs = CliFS
    /\ FSIdle
    /\ XferIdle
    /\ RegIdle
    /\ CliIdle
    /\ SessIdle

\* toggle_connection while disconnected: the address is handed to the engine
\* (ui.asked: what the user asked for last with the connection button)
UConnect ==
    /\ ui.pc = "idle"
    /\ ~connected
    /\ server_ip = ""
    /\ server_ip' = "ip"
    /\ ui' = [ui EXCEPT !.asked = "connect"]
    /\ UNCHANGED <<fs, cliFrame, connected, is_transferring, buffer, socket_lock,
                   lpc, xfer, c2s, s2c, srv>>

\* run: `while self.running` (ui.running: the window has not been closed)
\* and the two tests at the top of the loop
LCheck ==
    /\ lpc = "check"
    /\ IF ~ui.running
       THEN lpc' = "stopped"
       ELSE IF ~connected /\ server_ip # ""
       THEN lpc' = "connect"
       ELSE connected /\ ~is_transferring /\ lpc' = "lock"
    /\ UNCHANGED <<fs, cliFrame, connected, server_ip, is_transferring, buffer,
                   socket_lock, ui, xfer, c2s, s2c, srv>>

\* handle_client starts on an accepted connection: nothing read yet
NewSession ==
    [pc |-> "line", buf |-> <<>>, target |-> <<>>, remaining |-> 0,
     rejected |-> {}]

\* A do_connect whose except clause keeps the address
LConnectRetry ==
    /\ lpc = "connect"
    /\ \/ /\ srv.pc \in {"none", "closed"}
          /\ lpc' = "conlock"
          /\ srv' = NewSession
          /\ c2s' = <<>>
          /\ s2c' = <<>>
          /\ ui' = ui
       \/ /\ lpc' = "check"
          /\ UNCHANGED <<srv, c2s, s2c>>
          /\ ui' = [ui EXCEPT !.failed = TRUE]
    /\ UNCHANGED <<fs, cliFrame, connected, server_ip, is_transferring, buffer,
                   socket_lock, xfer>>

\* do_connect: sock.connect succeeds on a new socket, and the server starts
\* a session for it (the model holds one session: the connection is made
\* once the session of an earlier connection has ended), or it raises: the
\* address is cleared and error_occurred is emitted with "Connection failed"
\* (ui.failed: the window has been given that error)
LConnect ==
    /\ lpc = "connect"
    /\ \/ /\ srv.pc \in {"none", "closed"}
          /\ lpc' = "conlock"
          /\ srv' = NewSession
          /\ c2s' = <<>>
          /\ s2c' = <<>>
          /\ server_ip' = server_ip
          /\ ui' = ui
       \/ /\ lpc' = "check"
          /\ server_ip' = ""
          /\ UNCHANGED <<srv, c2s, s2c>>
          /\ ui' = [ui EXCEPT !.failed = TRUE]
    /\ UNCHANGED <<fs, cliFrame, connected, is_transferring, buffer, socket_lock,
                   xfer>>

\* do_connect, under the lock: connected = True and the first LIST
LConnected ==
    /\ lpc = "conlock"
    /\ CanAcquire
    /\ connected' = TRUE
    /\ c2s' = c2s \o Line(ListRequest)
    /\ lpc' = "check"
    /\ UNCHANGED <<fs, cliFrame, server_ip, is_transferring, buffer, socket_lock,
                   ui, xfer, s2c, srv>>

\* run: with self.socket_lock
LAcquire ==
    /\ lpc = "lock"
    /\ CanAcquire
    /\ socket_lock' = "listener"
    /\ lpc' = "recv"
    /\ UNCHANGED <<fs, cliFrame, connected, server_ip, is_transferring, buffer,
                   ui, xfer, c2s, s2c, srv>>

\* run: the non-blocking recv(4096), which yields all that has arrived, or
\* a part of it that ends inside a line, or nothing; then process_buffer;
\* the lock is released
LRecv ==
    /\ lpc = "recv"
    /\ \E k \in {Len(s2c)} \cup {i \in 1..Len(s2c) : s2c[i].part = "head"} :
        \E r \in {SplitLines(buffer \o SubSeq(s2c, 1, k))} :
            /\ s2c' = SubSeq(s2c, k + 1, Len(s2c))
            /\ buffer' = r.rest
            /\ ui' = ProcessLines(r.lines, ui)
    /\ socket_lock' = LockFree
    /\ lpc' = "check"
    /\ UNCHANGED <<fs, cliFrame, connected, server_ip, is_transferring, xfer,
                   c2s, srv>>

\* refresh_files: send_json, which waits for the lock
URefresh ==
    /\ ui.pc = "idle"
    /\ ui.refreshes < MaxRefresh
    /\ ui' = [ui EXCEPT !.pc = "lock", !.refreshes = @ + 1,
                        !.probe = IF @ = "none" /\ TransferCompleted
                                  THEN "sent" ELSE @]
    /\ UNCHANGED <<fs, cliFrame, connected, server_ip, is_transferring, buffer,
                   socket_lock, lpc, xfer, c2s, s2c, srv>>

\* send_json: with self.socket_lock
USendLock ==
    /\ ui.pc = "lock"
    /\ CanAcquire
    /\ socket_lock' = "ui"
    /\ ui' = [ui EXCEPT !.pc = "send"]
    /\ UNCHANGED <<fs, cliFrame, connected, server_ip, is_transferring, buffer,
                   lpc, xfer, c2s, s2c, srv>>

\* send_json_unlocked: the line goes out if connected; the lock is released
USend ==
    /\ ui.pc = "send"
    /\ c2s' = IF connected THEN c2s \o Line(ListRequest) ELSE c2s
    /\ socket_lock' = LockFree
    /\ ui' = [ui EXCEPT !.pc = "idle"]
    /\ UNCHANGED <<fs, cliFrame, connected, server_ip, is_transferring, buffer,
                   lpc, xfer, s2c, srv>>

\* The thread of a transfer starts: `if not self.connected: return`, then
\* is_transferring = True
StartTransfer(t, size, expect) ==
    /\ ui.pc = "idle"
    /\ xfer[t].pc = "none"
    /\ IF connected
       THEN /\ xfer' = [xfer EXCEPT ![t] = [NoTransfer EXCEPT !.pc = "lock",
                                                             !.size = size,
                                                             !.expect = expect]]
            /\ is_transferring' = TRUE
       ELSE /\ xfer' = [xfer EXCEPT ![t] = [NoTransfer EXCEPT !.pc = "done",
                                                             !.result = "not connected"]]
            /\ is_transferring' = is_transferring
    /\ UNCHANGED <<fs, cliFrame, connected, server_ip, buffer, socket_lock, lpc,
                   ui, c2s, s2c, srv>>

\* upload_file of the window: a thread runs NetworkWorker.upload_file
UUpload ==
    \E size \in 0..MaxPayload : StartTransfer("upload", size, -1)

\* download_file of the window, on a file the window shows: a thread runs
\* NetworkWorker.download_file.  If the upload has completed, the download
\* is expected to bring its content back.
UDownload ==
    /\ \E e \in ui.shown : ~e.is_dir /\ e.name = XName
    /\ StartTransfer("download", 0,
                     IF xfer["upload"].pc = "done" /\ xfer["upload"].result = "ok"
                     THEN xfer["upload"].size ELSE -1)

\* upload_file, download_file: with self.socket_lock; the buffer is cleared
\* and the command is sent
TAcquire(t) ==
    /\ xfer[t].pc = "lock"
    /\ CanAcquire
    /\ socket_lock' = t
    /\ buffer' = <<>>
    /\ c2s' = IF ~connected THEN c2s
              ELSE c2s \o Line(IF t = "upload"
                               THEN UploadCommand(xfer[t].size)
                               ELSE DownloadRequest)
    /\ xfer' = [xfer EXCEPT ![t].pc = "hs"]
    /\ UNCHANGED <<fs, cliFrame, connected, server_ip, is_transferring, lpc, ui,
                   s2c, srv>>

\* A transfer that ends without its failure being reported
Unnoticed(x) == [x EXCEPT !.pc = "finally", !.result = "ok"]

\* An exception leaves the with block: the lock is released and the
\* failure is reported
Failed(x) == [x EXCEPT !.pc = "finally", !.result = "failed"]

\* The handshake: recv(1) until "\n", then json.loads.  An upload goes on if
\* the status is ready; a download goes on if it is success, opens the
\* local file and takes the size.
THandshake(t) ==
    /\ xfer[t].pc = "hs"
    /\ HasLine(s2c)
    /\ \E k \in {LineEnd(s2c)} : \E d \in {Decode(SubSeq(s2c, 1, k))} :
        /\ s2c' = SubSeq(s2c, k + 1, Len(s2c))
        /\ IF t = "upload"
           THEN IF d.ok /\ StatusOf(d.msg) = "ready"
                THEN /\ xfer' = [xfer EXCEPT ![t].pc = "send"]
                     /\ socket_lock' = socket_lock
                ELSE /\ xfer' = [xfer EXCEPT ![t] = Failed(@)]
                     /\ socket_lock' = LockFree
           ELSE IF d.ok /\ StatusOf(d.msg) = "success"
                THEN IF "size" \in Keys(d.msg)
                     THEN /\ xfer' = [xfer EXCEPT ![t].pc = "recv",
                                                  ![t].size = d.msg.size,
                                                  ![t].save = [exists |-> TRUE,
                                                               data |-> <<>>]]
                          /\ socket_lock' = socket_lock
                     ELSE /\ xfer' = [xfer EXCEPT ![t] =
                                        Failed([@ EXCEPT !.save = [exists |-> TRUE,
                                                                   data |-> <<>>]])]
                          /\ socket_lock' = LockFree
                ELSE /\ xfer' = [xfer EXCEPT ![t] = Failed(@)]
                     /\ socket_lock' = LockFree
    /\ UNCHANGED <<fs, cliFrame, connected, server_ip, is_transferring, buffer,
                   lpc, ui, c2s, srv>>

\* A sending loop that does not wait for the handshake
TSendUnasked(t) ==
    /\ t = "upload"
    /\ xfer[t].pc \in {"hs", "send"}
    /\ IF xfer[t].n < xfer[t].size
       THEN \E k \in {Min(CHUNK, xfer[t].size - xfer[t].n)} :
               /\ c2s' = c2s \o SubSeq(Content(xfer[t].size), xfer[t].n + 1,
                                       xfer[t].n + k)
               /\ xfer' = [xfer EXCEPT ![t].n = @ + k,
                                       ![t].progress =
                                           Append(@, Percent(xfer[t].n + k,
                                                             xfer[t].size))]
               /\ socket_lock' = socket_lock
       ELSE /\ c2s' = c2s \o Line(ListRequest)
            /\ xfer' = [xfer EXCEPT ![t].pc = "finally", ![t].result = "ok"]
            /\ socket_lock' = LockFree
    /\ UNCHANGED <<fs, cliFrame, connected, server_ip, is_transferring, buffer,
                   lpc, ui, s2c, srv>>

\* The sending loop of upload_file: the next chunk; after the last one the
\* LIST command, and the lock is released
TSend(t) ==
    /\ xfer[t].pc = "send"
    /\ IF xfer[t].n < xfer[t].size
       THEN \E k \in {Min(CHUNK, xfer[t].size - xfer[t].n)} :
               /\ c2s' = c2s \o SubSeq(Content(xfer[t].size), xfer[t].n + 1,
                                       xfer[t].n + k)
               /\ xfer' = [xfer EXCEPT ![t].n = @ + k,
                                       ![t].progress =
                                           Append(@, Percent(xfer[t].n + k,
                                                             xfer[t].size))]
               /\ socket_lock' = socket_lock
       ELSE /\ c2s' = c2s \o Line(ListRequest)
            /\ xfer' = [xfer EXCEPT ![t].pc = "finally", ![t].result = "ok"]
            /\ socket_lock' = LockFree
    /\ UNCHANGED <<fs, cliFrame, connected, server_ip, is_transferring, buffer,
                   lpc, ui, s2c, srv>>

\* The receive loop of download_file: recv(min(CHUNK, size - received))
\* yields what has arrived of the bytes asked for, written to the local
\* file; after the last byte the lock is released
TRecv(t) ==
    /\ xfer[t].pc = "recv"
    /\ IF xfer[t].n < xfer[t].size
       THEN /\ s2c # <<>>
            /\ \E k \in {Min(Min(CHUNK, xfer[t].size - xfer[t].n), Len(s2c))} :
                /\ s2c' = SubSeq(s2c, k + 1, Len(s2c))
                /\ xfer' = [xfer EXCEPT ![t].n = @ + k,
                                        ![t].save.data = @ \o SubSeq(s2c, 1, k),
                                        ![t].progress =
                                            Append(@, Percent(xfer[t].n + k,
                                                              xfer[t].size))]
            /\ socket_lock' = socket_lock
       ELSE /\ s2c' = s2c
            /\ xfer' = [xfer EXCEPT ![t].pc = "finally", ![t].result = "ok"]
            /\ socket_lock' = LockFree
    /\ UNCHANGED <<fs, cliFrame, connected, server_ip, is_transferring, buffer,
                   lpc, ui, c2s, srv>>

\* finally: is_transferring = False; the thread ends
TFinally(t) ==
    /\ xfer[t].pc = "finally"
    /\ is_transferring' = FALSE
    /\ xfer' = [xfer EXCEPT ![t].pc = "done"]
    /\ UNCHANGED <<fs, cliFrame, connected, server_ip, buffer, socket_lock, lpc,
                   ui, c2s, s2c, srv>>

\* The log of the session: the transfer commands whose first answer is an
\* error ("Upload error", "Download error" in the server's log)
Rejected(m, o) ==
    IF m.command \in {"UPLOAD", "DOWNLOAD"} /\ o.resp[1].status = "error"
    THEN {m.command} ELSE {}

\* handle_client: recv(1024) takes what has arrived into the line buffer
SrvRecv ==
    /\ srv.pc = "line"
    /\ ~HasLine(srv.buf)
    /\ c2s # <<>>
    /\ srv' = [srv EXCEPT !.buf = @ \o c2s]
    /\ c2s' = <<>>
    /\ UNCHANGED <<fs, cliFrame, connected, server_ip, is_transferring, buffer,
                   socket_lock, lpc, ui, xfer, s2c>>

\* handle_client: the next line of the buffer is decoded and dispatched.  A
\* line that is not JSON ends the session.  An UPLOAD that gets past its
\* checks and has payload to receive answers ready, opens the target and
\* enters its receive loop; every other command is served in one go.
SrvLine ==
    /\ srv.pc = "line"
    /\ HasLine(srv.buf)
    /\ UNCHANGED <<cliFrame, connected, server_ip, is_transferring, buffer,
                   socket_lock, lpc, ui, xfer, c2s>>
    /\ \E k \in {LineEnd(srv.buf)} : \E d \in {Decode(SubSeq(srv.buf, 1, k))} :
        IF ~d.ok
        THEN /\ srv' = [srv EXCEPT !.pc = "closed", !.buf = <<>>]
             /\ s2c' = s2c
             /\ fs' = fs
        ELSE \E o \in {Dispatch(fs, [d.msg EXCEPT !.ending = "eof"])},
                rest \in {SubSeq(srv.buf, k + 1, Len(srv.buf))} :
             IF /\ d.msg.command = "UPLOAD"
                /\ d.msg.size > 0
                /\ o.resp = <<ReadyResp, ErrorResp("Transfer incomplete")>>
             THEN \E w \in {Resolve(fs, PathJoin(FullPath[d.msg.path].path,
                                                 d.msg.name))} :
                  /\ fs' = CreateFile(fs, w.node)
                  /\ s2c' = s2c \o Line(ReadyResp)
                  /\ srv' = [srv EXCEPT !.pc = "upload", !.buf = rest,
                                         !.target = w.node,
                                         !.remaining = d.msg.size]
             ELSE /\ fs' = o.fs
                  /\ s2c' = s2c \o Line(o.resp[1])
                                \o (IF Len(o.resp) > 1 THEN Line(o.resp[2]) ELSE <<>>)
                                \o o.payload
                  /\ srv' = [srv EXCEPT !.buf = rest,
                                         !.rejected = @ \cup Rejected(d.msg, o)]

\* handle_upload: one round of the receive loop; after the last byte the
\* reply is success
SrvUploadRecv ==
    /\ srv.pc = "upload"
    /\ c2s # <<>>
    /\ \E k \in {Min(Min(CHUNK, srv.remaining), Len(c2s))} :
        /\ fs' = WriteChunk(fs, srv.target, SubSeq(c2s, 1, k))
        /\ c2s' = SubSeq(c2s, k + 1, Len(c2s))
        /\ IF srv.remaining = k
           THEN /\ srv' = [srv EXCEPT !.pc = "line", !.remaining = 0]
                /\ s2c' = s2c \o Line(SuccessResp("Upload complete"))
           ELSE /\ srv' = [srv EXCEPT !.remaining = @ - k]
                /\ s2c' = s2c
    /\ UNCHANGED <<cliFrame, connected, server_ip, is_transferring, buffer,
                   socket_lock, lpc, ui, xfer>>

\* handle_upload: recv raises socket.timeout after 300 s without payload;
\* the exception leaves the with block (the file stays as it is) and the
\* reply is error.
SrvUploadTimeout ==
    /\ srv.pc = "upload"
    /\ c2s = <<>>
    /\ ~peer.closed
    /\ socket_lock = LockFree
    /\ ui.pc = "idle"
    /\ \A t \in Transfers : xfer[t].pc \in {"none", "done"}
    /\ srv' = [srv EXCEPT !.pc = "line", !.remaining = 0]
    /\ s2c' = s2c \o Line(ErrorResp("timed out"))
    /\ UNCHANGED <<fs, cliFrame, connected, server_ip, is_transferring, buffer,
                   socket_lock, lpc, ui, xfer, c2s>>

NextClient ==
    \/ UConnect
    \/ LCheck
    \/ LConnect
    \/ LConnected
    \/ LAcquire
    \/ LRecv
    \/ URefresh
    \/ USendLock
    \/ USend
    \/ UUpload
    \/ UDownload
    \/ \E t \in Transfers :
        \/ TAcquire(t)
        \/ THandshake(t)
        \/ TSend(t)
        \/ TRecv(t)
        \/ TFinally(t)
    \/ SrvRecv
    \/ SrvLine
    \/ SrvUploadRecv
    \/ SrvUploadTimeout

SpecClient == InitClient /\ [][NextClient]_vars

(***************************************************************************)
(* Claims about the client's use of its connection (SpecClient).           *)
(***************************************************************************)
\* C4: a download that follows the completed upload of the file writes a
\* local file with exactly the uploaded content.
C4_RoundTrip ==
    (xfer["download"].pc = "done" /\ xfer["download"].expect >= 0)
        => xfer["download"].save =
               [exists |-> TRUE, data |-> Content(xfer["download"].expect)]

\* The thread is inside an exchange on the socket
InSocketIO(t) ==
    \/ t = "listener" /\ lpc = "recv"
    \/ t = "ui" /\ ui.pc = "send"
    \/ t \in Transfers /\ xfer[t].pc \in {"hs", "send", "recv"}

Threads == {"listener", "ui"} \cup Transfers

\* C5: at most one thread is reading from or writing to the connection, and
\* it is the holder of the lock.
C5_SocketOwnership ==
    \A a \in Threads :
        InSocketIO(a) =>
            /\ socket_lock = a
            /\ \A b \in Threads \ {a} : ~InSocketIO(b)

\* A transfer is in its exchange while the listener, past its test of
\* is_transferring, and the other transfer wait for the lock.
C5_Witness ==
    /\ lpc = "lock"
    /\ \E t \in Transfers : xfer[t].pc \in {"hs", "send", "recv"}
    /\ \E t \in Transfers : xfer[t].pc = "lock"

\* The server has nothing to read and nothing to answer
ServerIdle ==
    \/ srv.pc \in {"none", "closed"}
    \/ /\ srv.pc = "line"
       /\ c2s = <<>>
       /\ ~HasLine(srv.buf)

\* Nothing is under way and nothing is left to read
Quiescent ==
    /\ socket_lock = LockFree
    /\ lpc = "check"
    /\ ui.pc = "idle"
    /\ \A t \in Transfers : xfer[t].pc \in {"none", "done"}
    /\ s2c = <<>>
    /\ ServerIdle

\* C6: a LIST request made after a transfer has completed is answered with
\* its listing, and neither end fails to decode a line, wherever the
\* listener was when the transfer was issued.
C6_ListingAfterTransfer ==
    (Quiescent /\ ui.probe # "none") =>
        /\ ui.probe = "listed"
        /\ srv.pc # "closed"


\* The line is what the server answers to the command of transfer t: ready
\* or an error to UPLOAD, the size or an error to DOWNLOAD.
OwnAnswer(t, d) ==
    /\ d.ok
    /\ \/ StatusOf(d.msg) = "error"
       \/ t = "upload" /\ StatusOf(d.msg) = "ready"
       \/ t = "download" /\ "size" \in Keys(d.msg)

\* C28: the line a transfer reads as its handshake is the answer of the
\* server to the command of this transfer, whatever was on the connection
\* or in the buffer of the listener when the transfer began.
C28_HandshakeIsOwnAnswer ==
    [][\A t \in Transfers :
          (xfer[t].pc = "hs" /\ xfer'[t].pc # "hs" /\ HasLine(s2c))
              => OwnAnswer(t, Decode(SubSeq(s2c, 1, LineEnd(s2c))))]_vars

\* The call of transfer t has set the flag and has not reached the end of
\* its finally block
InProgress(t) == xfer[t].pc \notin {"none", "done"}

\* C31: is_transferring is True whenever a transfer call has started and has
\* not finished, also when two calls overlap.
C31_FlagCoversTransfers ==
    (\E t \in Transfers : InProgress(t)) => is_transferring

\* The status of the line a handshake reads next ("undecodable" when
\* json.loads rejects it)
HandshakeStatus ==
    IF ~HasLine(s2c) THEN "none"
    ELSE LET d == Decode(SubSeq(s2c, 1, LineEnd(s2c)))
         IN  IF d.ok THEN StatusOf(d.msg) ELSE "undecodable"

\* The status a transfer goes on with
Wanted(t) == IF t = "upload" THEN "ready" ELSE "success"

\* The step puts a payload byte on the connection
PayloadSent == Len(c2s') > Len(c2s) /\ c2s'[Len(c2s')].part = "byte"

\* C35: payload bytes are sent only by an upload that has read a handshake
\* line with status ready; the local file of a download is created only on
\* reading a handshake line with status success; a handshake with any other
\* status ends the call with no payload sent and no local file touched.
C35_HandshakeStep ==
    /\ PayloadSent => xfer["upload"].pc = "send"
    /\ (xfer["upload"].pc # "send" /\ xfer'["upload"].pc = "send")
          => (xfer["upload"].pc = "hs" /\ HandshakeStatus = "ready")
    /\ (~xfer["download"].save.exists /\ xfer'["download"].save.exists)
          => (xfer["download"].pc = "hs" /\ HandshakeStatus = "success")
    /\ \A t \in Transfers :
          (xfer[t].pc = "hs" /\ xfer'[t].pc # "hs" /\ HandshakeStatus # Wanted(t))
              => /\ xfer'[t].pc = "finally"
                 /\ xfer'[t].result = "failed"
                 /\ xfer'[t].save = xfer[t].save
                 /\ c2s' = c2s

C35_HandshakeGates == [][C35_HandshakeStep]_vars

\* An upload has failed on a handshake that was not ready, with nothing
\* sent, and a download has its local file and has received payload.
C35_Witness ==
    /\ xfer["upload"].result = "failed"
    /\ xfer["upload"].n = 0
    /\ xfer["upload"].size > 0
    /\ xfer["download"].save.exists
    /\ xfer["download"].n > 0

\* The transfer has ended without failure, all declared bytes moved
MovedAll(t) ==
    /\ xfer[t].pc \in {"finally", "done"}
    /\ xfer[t].result = "ok"
    /\ xfer[t].n = xfer[t].size

\* C40: the values a transfer gives to progress_updated lie in 0..100 and
\* never go down, and a transfer that has moved all its declared bytes,
\* whatever the declared size, has given 100 as its last value.
C40_ProgressPercent ==
    \A t \in Transfers :
        LET p == xfer[t].progress
        IN  /\ \A i \in 1..Len(p) : p[i] \in 0..100
            /\ \A i \in 1..(Len(p) - 1) : p[i] <= p[i + 1]
            /\ MovedAll(t) => (p # <<>> /\ p[Len(p)] = 100)

\* C25: the interface thread never has to wait for an in-flight transfer:
\* when it is at the `with self.socket_lock` of send_json, no transfer holds
\* the lock.  (The listener holds the lock for one non-blocking recv only.)
C25_InterfaceNeverWaits ==
    ui.pc = "lock" => socket_lock \notin Transfers

(***************************************************************************)
(* SpecShared: the client of SpecClient on a storage that another client   *)
(* uses too: the file the window shows may have been deleted by the time   *)
(* the user asks for it.                                                   *)
(***************************************************************************)
\* The session of another client serves DELETE of the file
OtherDelete ==
    /\ PathExists(fs, PathJoin(FullPath[<<>>].path, XName))
    /\ fs' = HandleDelete(fs, Request("DELETE", <<>>, TRUE, XName)).fs
    /\ UNCHANGED <<fsVars, xferVars, regVars, cliVars, sessVars, wireVars>>

NextShared ==
    \/ NextClient
    \/ OtherDelete

SpecShared == InitClient /\ [][NextShared]_vars

\* The command a transfer sends
CommandOf(t) == IF t = "upload" THEN "UPLOAD" ELSE "DOWNLOAD"

\* The transfer has ended and the server's answer to its command was an error
RejectedTransfer(t) == xfer[t].pc = "done" /\ CommandOf(t) \in srv.rejected

C20_ConnectStep ==
    /\ (lpc = "connect" /\ lpc' # "connect" /\ lpc' # "conlock")
           => (server_ip' = "" /\ ui'.failed /\ ~connected' /\ lpc' = "check")
    /\ (lpc # "connect" /\ lpc' = "connect") => (server_ip # "" /\ ~connected)
    /\ (server_ip = "" /\ server_ip' # "") => (lpc' = lpc /\ ui.pc = "idle")

C20_ConnectFailure == [][C20_ConnectStep]_vars

\* After a failed attempt the caller has supplied the address again and the
\* engine is connected
C20_Witness == ui.failed /\ connected /\ server_ip # ""

(***************************************************************************)
(* SpecSession: one session of the server (handle_client) and, at the      *)
(* other end of its connection, a program that writes what it likes: up    *)
(* to MaxLines lines (commands, and a line that is not JSON), up to        *)
(* MaxPayload payload bytes, in any order, and may close.  It reads        *)
(* nothing, so s2c is everything the session has written, in order.  The   *)
(* storage holds a file "f" and a folder "a".                              *)
(***************************************************************************)
SessFS == CliFS @@ (<<<<"h">>, <<"s">>, <<"a">>>> :> DirNode)

\* A line that json.loads rejects
BadLine == << ByteTok(0), [part |-> "tail", msg |-> NoRequest, byte |-> 0] >>

\* The commands the other end sends
SessCommands ==
    { Request("LIST", <<>>, FALSE, <<>>),
      Request("DOWNLOAD", <<>>, TRUE, XName),
      Request("DOWNLOAD", <<>>, TRUE, <<"a">>),
      Request("PING", <<>>, FALSE, <<>>) }
    \cup { UploadRequest(<<>>, TRUE, XName, TRUE, n, <<>>, "none") : n \in 0..MaxPayload }
    \cup { UploadRequest(<<>>, TRUE, <<"a">>, TRUE, n, <<>>, "none") : n \in 0..1 }

SessLines == { Line(m) : m \in SessCommands } \cup { BadLine }

InitSession ==
    /\ fs = SessFS
    /\ FSIdle
    /\ XferIdle
    /\ RegIdle
    /\ CliIdle
    /\ SessIdle

\* start_server: the connection is accepted and handle_client runs on it
SessAccept ==
    /\ srv.pc = "none"
    /\ srv' = [srv EXCEPT !.pc = "line"]
    /\ UNCHANGED <<fs, cliFrame, connected, server_ip, is_transferring, buffer,
                   socket_lock, lpc, ui, xfer, c2s, s2c, peer>>

\* The other end writes a line
PeerLine ==
    /\ ~peer.closed
    /\ peer.lines < MaxLines
    /\ \E l \in SessLines : c2s' = c2s \o l
    /\ peer' = [peer EXCEPT !.lines = @ + 1]
    /\ UNCHANGED <<fs, fsVars, xferVars, regVars, wireVars, connected, server_ip,
                   is_transferring, buffer, socket_lock, lpc, ui, xfer, s2c, srv>>

\* The other end writes a payload byte
PeerPayload ==
    /\ ~peer.closed
    /\ peer.bytes < MaxPayload
    /\ c2s' = Append(c2s, ByteTok(peer.bytes + 1))
    /\ peer' = [peer EXCEPT !.bytes = @ + 1]
    /\ UNCHANGED <<fs, fsVars, xferVars, regVars, wireVars, connected, server_ip,
                   is_transferring, buffer, socket_lock, lpc, ui, xfer, s2c, srv>>

\* The other end closes the connection
SessPeerClose ==
    /\ ~peer.closed
    /\ peer' = [peer EXCEPT !.closed = TRUE]
    /\ UNCHANGED <<fs, fsVars, xferVars, regVars, wireVars, connected, server_ip,
                   is_transferring, buffer, socket_lock, lpc, ui, xfer, c2s, s2c,
                   srv>>

\* handle_client: recv returns nothing (the other end closed) or raises
\* socket.timeout (300 s of silence); either way the loop is left and the
\* connection closed
SrvEnd ==
    /\ srv.pc = "line"
    /\ ~HasLine(srv.buf)
    /\ c2s = <<>>
    /\ srv' = [srv EXCEPT !.pc = "closed", !.buf = <<>>]
    /\ UNCHANGED <<fs, cliFrame, connected, server_ip, is_transferring, buffer,
                   socket_lock, lpc, ui, xfer, c2s, s2c>>

\* handle_upload: recv returns nothing before size bytes are in; the file is
\* removed and the reply is error
SrvUploadEof ==
    /\ srv.pc = "upload"
    /\ c2s = <<>>
    /\ peer.closed
    /\ fs' = RemoveTree(fs, srv.target)
    /\ srv' = [srv EXCEPT !.pc = "line", !.remaining = 0]
    /\ s2c' = s2c \o Line(ErrorResp("Transfer incomplete"))
    /\ UNCHANGED <<cliFrame, connected, server_ip, is_transferring, buffer,
                   socket_lock, lpc, ui, xfer, c2s>>

NextSession ==
    \/ SessAccept
    \/ PeerLine
    \/ PeerPayload
    \/ SessPeerClose
    \/ SrvRecv
    \/ SrvLine
    \/ SrvUploadRecv
    \/ SrvUploadTimeout
    \/ SrvUploadEof
    \/ SrvEnd

SpecSession == InitSession /\ [][NextSession]_vars


(***************************************************************************)
(* Claims about a session of the server (SpecSession).                     *)
(***************************************************************************)
\* The session is in its read loop with a whole line in its buffer
AwaitingCommand == srv.pc = "line" /\ HasLine(srv.buf)

\* The line the session takes next, and what stays in the buffer
NextLine == SubSeq(srv.buf, 1, LineEnd(srv.buf))
AfterNextLine == SubSeq(srv.buf, LineEnd(srv.buf) + 1, Len(srv.buf))

Commands == {"LIST", "UPLOAD", "DOWNLOAD", "DELETE", "MKDIR"}

\* C16: a line that fails to decode as JSON, taken by a session that is
\* awaiting a command, does not close the session: the session stays in its
\* read loop with the lines that follow still to be dispatched.
C16_BadLineStep ==
    (AwaitingCommand /\ ~Decode(NextLine).ok /\ srv' # srv)
        => (srv'.pc = "line" /\ srv'.buf = AfterNextLine)

C16_BadLineKeepsSession == [][C16_BadLineStep]_vars

\* C17: a request whose command is none of the five gets exactly one reply,
\* error "Unknown command", changes nothing in the storage tree and leaves the
\* session in its read loop with the lines that follow still to be dispatched.
C17_UnknownStep ==
    (/\ AwaitingCommand
     /\ Decode(NextLine).ok
     /\ Decode(NextLine).msg.command \notin Commands
     /\ srv' # srv)
        => /\ s2c' = s2c \o Line(ErrorResp("Unknown command"))
           /\ fs' = fs
           /\ srv'.pc = "line"
           /\ srv'.buf = AfterNextLine

C17_UnknownCommand == [][C17_UnknownStep]_vars

\* The session has answered "Unknown command" and then served a command
C17_Witness ==
    \E i \in 1..(Len(s2c) - 1) :
        /\ s2c[i].part = "tail"
        /\ s2c[i].msg = ErrorResp("Unknown command")
        /\ s2c[i + 1].part = "head"
        /\ s2c[i + 1].msg.status = "success"


\* handle_upload goes past its "Missing info" check
UploadAccepted(m) ==
    m.command = "UPLOAD" /\ m.hasName /\ m.name # <<>> /\ m.hasSize

\* The bytes a step of the session takes off the connection
BytesRead == Len(c2s) - Len(c2s')

\* C18: for every accepted UPLOAD the session writes ready before it reads
\* any payload byte, then reads exactly the declared size bytes, each read
\* taking at most min(CHUNK, remaining) of them, and replies success if and
\* only if exactly size bytes were received.
C18_AcceptStep ==
    (/\ AwaitingCommand
     /\ Decode(NextLine).ok
     /\ UploadAccepted(Decode(NextLine).msg)
     /\ srv' # srv)
        => /\ c2s' = c2s
           /\ IF Decode(NextLine).msg.size = 0
              THEN /\ s2c' = s2c \o Line(ReadyResp)
                                 \o Line(SuccessResp("Upload complete"))
                   /\ srv'.pc = "line"
              ELSE /\ s2c' = s2c \o Line(ReadyResp)
                   /\ srv'.pc = "upload"
                   /\ srv'.remaining = Decode(NextLine).msg.size

C18_ReceiveStep ==
    (srv.pc = "upload" /\ srv' # srv)
        => /\ BytesRead <= Min(CHUNK, srv.remaining)
           /\ srv'.pc = "upload" =>
                 (BytesRead > 0 /\ srv'.remaining = srv.remaining - BytesRead
                  /\ srv'.remaining > 0 /\ s2c' = s2c)
           /\ srv'.pc # "upload" =>
                 /\ Len(s2c') = Len(s2c) + 2
                 /\ (s2c'[Len(s2c')].msg = SuccessResp("Upload complete"))
                        <=> (BytesRead = srv.remaining)
                 /\ s2c'[Len(s2c')].msg.status \in {"success", "error"}

C18_UploadStep == C18_AcceptStep /\ C18_ReceiveStep

C18_UploadExact == [][C18_UploadStep]_vars


\* What a step of the session writes to the connection
Written == SubSeq(s2c', Len(s2c) + 1, Len(s2c'))

\* C19: for every DOWNLOAD of an existing regular file the session writes
\* the handshake line {status: success, size} and then exactly size payload
\* bytes, the content of the file, and nothing else.
C19_DownloadStep ==
    (/\ AwaitingCommand
     /\ Decode(NextLine).ok
     /\ Decode(NextLine).msg.command = "DOWNLOAD"
     /\ IsFileNode(fs, TargetNode(Decode(NextLine).msg.path,
                                  Decode(NextLine).msg.name))
     /\ srv' # srv)
        => LET data == fs[TargetNode(Decode(NextLine).msg.path,
                                     Decode(NextLine).msg.name)].data
           IN  /\ Len(Written) = 2 + Len(data)
               /\ Decode(SubSeq(Written, 1, 2)).ok
               /\ Written[1].msg.keys = {"status", "size"}
               /\ Written[1].msg.status = "success"
               /\ Written[1].msg.size = Len(data)
               /\ SubSeq(Written, 3, Len(Written)) = data
               /\ fs' = fs
               /\ srv'.pc = "line"

C19_DownloadFramed == [][C19_DownloadStep]_vars

\* The session has written a handshake of size 2 and the two bytes of the
\* file, uploaded on this connection, after it
C19_Witness ==
    \E i \in 1..(Len(s2c) - 2) :
        /\ s2c[i].part = "tail"
        /\ s2c[i].msg.keys = {"status", "size"}
        /\ s2c[i].msg.size = 2
        /\ s2c[i + 1] = ByteTok(1)
        /\ s2c[i + 2] = ByteTok(2)


\* The session answers ready in this step
RepliesReady ==
    /\ AwaitingCommand
    /\ Len(Written) >= Len(Line(ReadyResp))
    /\ SubSeq(Written, 1, Len(Line(ReadyResp))) = Line(ReadyResp)

\* C30: once the session has replied ready to an UPLOAD of declared size n,
\* the next n bytes of the connection are file content: the handler is in
\* its receive loop until it has read them (or the connection has ended),
\* what it reads goes into the file and not into the line buffer, and the
\* read loop of the session writes nothing into a file.
C30_FramingStep ==
    /\ RepliesReady =>
          \/ Decode(NextLine).msg.size = 0
          \/ srv'.pc = "upload" /\ srv'.remaining = Decode(NextLine).msg.size
    /\ (srv.pc = "upload" /\ srv' # srv) =>
          /\ srv'.buf = srv.buf
          /\ srv.target \in DOMAIN fs
          /\ srv'.pc = "upload" =>
                fs'[srv.target].data =
                    fs[srv.target].data \o SubSeq(c2s, 1, BytesRead)
          /\ srv'.pc # "upload" =>
                (BytesRead = srv.remaining \/ (peer.closed /\ c2s = <<>>))
    /\ (srv.pc = "line" /\ ~HasLine(srv.buf) /\ srv' # srv) => fs' = fs

C30_UploadFraming == [][C30_FramingStep]_vars

(***************************************************************************)
(* SpecLink: the client of SpecClient on a connection that can be lost.    *)
(* The server closes the connection (stop_server, or the end of the        *)
(* session); after that a read at the client finds the end of the stream   *)
(* or fails, and a send fails or goes nowhere, as the network decides.  A  *)
(* transfer's read gives up after its 10 s timeout when the server has     *)
(* nothing to send.  The user may close the window, which disconnects and  *)
(* ends the listener (the Disconnect button, after which the listener      *)
(* connects again, is not used).  do_disconnect takes socket_lock (a       *)
(* threading.Lock, not reentrant): a thread at pc "disconnect" is at its   *)
(* `with self.socket_lock`.                                                *)
(***************************************************************************)
\* The server has closed its end of the connection
ServerGone == srv.pc = "closed"

\* The server is waiting for the client and will send nothing by itself
ServerWaiting ==
    \/ srv.pc = "line" /\ c2s = <<>> /\ ~HasLine(srv.buf)
    \/ srv.pc = "upload" /\ c2s = <<>>

\* The payload bytes at the end of what the server has written
RECURSIVE TrailingBytes(_)
TrailingBytes(data) ==
    IF data = <<>> \/ data[Len(data)].part # "byte" THEN 0
    ELSE 1 + TrailingBytes(SubSeq(data, 1, Len(data) - 1))

\* stop_server: conn.close() on the connection of the session, at any time.
\* What the session has read and not served is dropped; if handle_download
\* is in its sending loop, the chunks not yet sent are never sent.
SrvStop ==
    /\ srv.pc \in {"line", "upload"}
    /\ srv' = [srv EXCEPT !.pc = "closed", !.buf = <<>>]
    /\ c2s' = <<>>
    /\ \E k \in 0..TrailingBytes(s2c) : s2c' = SubSeq(s2c, 1, Len(s2c) - k)
    /\ UNCHANGED <<fs, cliFrame, connected, server_ip, is_transferring, buffer,
                   socket_lock, lpc, ui, xfer>>

\* closeEvent: the window is closed; worker.running = False and
\* do_disconnect on the interface thread
UClose ==
    /\ ui.pc = "idle"
    /\ ui' = [ui EXCEPT !.pc = "disconnect", !.running = FALSE]
    /\ UNCHANGED <<fs, cliFrame, connected, server_ip, is_transferring, buffer,
                   socket_lock, lpc, xfer, c2s, s2c, srv>>

\* The thread is in do_disconnect, at `with self.socket_lock`
AtDisconnect(th) ==
    \/ th = "listener" /\ lpc = "disconnect"
    \/ th = "ui" /\ ui.pc = "disconnect"
    \/ th \in Transfers /\ xfer[th].pc = "disconnect"

\* do_disconnect: under the lock, connected = False, the socket is closed
\* and connection_changed(False) is emitted; the caller goes on
DoDisconnect(th) ==
    /\ AtDisconnect(th)
    /\ CanAcquire
    /\ connected' = FALSE
    /\ s2c' = IF connected THEN <<>> ELSE s2c
    /\ lpc' = IF th = "listener" THEN "check" ELSE lpc
    /\ ui' = IF th = "ui"
             THEN [ui EXCEPT !.pc = IF ui.running THEN "idle" ELSE "closed"]
             ELSE ui
    /\ xfer' = IF th \in Transfers THEN [xfer EXCEPT ![th].pc = "hs"] ELSE xfer
    /\ UNCHANGED <<fs, cliFrame, server_ip, is_transferring, buffer, socket_lock,
                   c2s, srv>>

\* run: recv raises (connection reset) and the except clause calls
\* do_disconnect inside `with self.socket_lock`
LRecvError ==
    /\ lpc = "recv"
    /\ ServerGone
    /\ s2c = <<>>
    /\ lpc' = "disconnect"
    /\ UNCHANGED <<fs, cliFrame, connected, server_ip, is_transferring, buffer,
                   socket_lock, ui, xfer, c2s, s2c, srv>>

\* send_json_unlocked on the interface thread: sendall raises and the
\* except clause calls do_disconnect, send_json holding the lock
USendError ==
    /\ ui.pc = "send"
    /\ connected
    /\ ServerGone
    /\ ui' = [ui EXCEPT !.pc = "disconnect"]
    /\ UNCHANGED <<fs, cliFrame, connected, server_ip, is_transferring, buffer,
                   socket_lock, lpc, xfer, c2s, s2c, srv>>

\* upload_file, download_file: the lock is taken, the buffer cleared, and
\* send_json_unlocked fails on the command: do_disconnect under the lock
TCommandError(t) ==
    /\ xfer[t].pc = "lock"
    /\ CanAcquire
    /\ connected
    /\ ServerGone
    /\ socket_lock' = t
    /\ buffer' = <<>>
    /\ xfer' = [xfer EXCEPT ![t].pc = "disconnect"]
    /\ UNCHANGED <<fs, cliFrame, connected, server_ip, is_transferring, lpc, ui,
                   c2s, s2c, srv>>

\* The handshake read of a transfer ends without a line: recv(1) returns
\* nothing or raises after the server has closed, or raises socket.timeout
\* after 10 s; json.loads of what was read, or the exception itself, leaves
\* the with block
THandshakeEnd(t) ==
    /\ xfer[t].pc = "hs"
    /\ ~HasLine(s2c)
    /\ ServerGone \/ ServerWaiting
    /\ s2c' = <<>>
    /\ xfer' = [xfer EXCEPT ![t] = Failed(@)]
    /\ socket_lock' = LockFree
    /\ UNCHANGED <<fs, cliFrame, connected, server_ip, is_transferring, buffer,
                   lpc, ui, c2s, srv>>

\* upload_file after the handshake: sendall of a chunk raises, which leaves
\* the with block; send_json_unlocked of the closing LIST fails, which
\* calls do_disconnect under the lock
TSendError(t) ==
    /\ xfer[t].pc = "send"
    /\ ServerGone
    /\ IF xfer[t].n < xfer[t].size
       THEN /\ xfer' = [xfer EXCEPT ![t] = Failed(@)]
            /\ socket_lock' = LockFree
       ELSE /\ connected
            /\ xfer' = [xfer EXCEPT ![t].pc = "disconnect"]
            /\ socket_lock' = socket_lock
    /\ UNCHANGED <<fs, cliFrame, connected, server_ip, is_transferring, buffer,
                   lpc, ui, c2s, s2c, srv>>

\* download_file with bytes still to come and none there: after the server
\* has closed, recv returns nothing (`if not chunk: break`, then the
\* "Downloaded" message) or raises; with the server silent it raises
\* socket.timeout
TRecvEnd(t) ==
    /\ xfer[t].pc = "recv"
    /\ xfer[t].n < xfer[t].size
    /\ s2c = <<>>
    /\ \/ /\ ServerGone
          /\ xfer' = [xfer EXCEPT ![t].pc = "finally", ![t].result = "ok"]
       \/ /\ ServerGone \/ ServerWaiting
          /\ xfer' = [xfer EXCEPT ![t] = Failed(@)]
    /\ socket_lock' = LockFree
    /\ UNCHANGED <<fs, cliFrame, connected, server_ip, is_transferring, buffer,
                   lpc, ui, c2s, s2c, srv>>

NextLink ==
    \/ NextClient
    \/ SrvStop
    \/ UClose
    \/ \E th \in Threads : DoDisconnect(th)
    \/ LRecvError
    \/ USendError
    \/ \E t \in Transfers :
        \/ TCommandError(t)
        \/ THandshakeEnd(t)
        \/ TSendError(t)
        \/ TRecvEnd(t)

SpecLink == InitClient /\ [][NextLink]_vars


\* The steps of the thread of a transfer, and those of the server's session
TransferStep(t) ==
    \/ TAcquire(t)
    \/ TCommandError(t)
    \/ THandshake(t)
    \/ THandshakeEnd(t)
    \/ TSend(t)
    \/ TSendError(t)
    \/ TRecv(t)
    \/ TRecvEnd(t)
    \/ TFinally(t)

SessionStep == SrvRecv \/ SrvLine \/ SrvUploadRecv \/ SrvUploadTimeout

\* The steps of the listener thread, and those of the interface thread
\* inside a call it has made
ListenerStep ==
    \/ LCheck
    \/ LConnect
    \/ LConnected
    \/ LAcquire
    \/ LRecv
    \/ LRecvError
    \/ DoDisconnect("listener")

InterfaceStep == USendLock \/ USend \/ USendError \/ DoDisconnect("ui")

\* SpecLink with threads that are scheduled: a thread that can take a step
\* again and again takes one, and so does the session of the server.  What
\* the user and the network do is left open.
SpecLinkFair ==
    /\ SpecLink
    /\ \A t \in Transfers : SF_vars(TransferStep(t))
    /\ SF_vars(ListenerStep)
    /\ SF_vars(InterfaceStep)
    /\ WF_vars(SessionStep)

(***************************************************************************)
(* Claims about the client on a connection that can be lost (SpecLink).    *)
(***************************************************************************)
\* The call of the transfer is under way
Started(t) == xfer[t].pc \notin {"none", "done"}

\* C23: every transfer call that starts ends, on every exit path, with the
\* socket lock released by it.
C23_TransferReleases ==
    \A t \in Transfers :
        Started(t) ~> (xfer[t].pc = "done" /\ socket_lock # t)


\* C24: a transfer that ends without the failure notification has moved
\* exactly the declared number of bytes: the size announced in the handshake
\* of a download, the size declared in the command of an upload.
C24_ExactOrFailed ==
    \A t \in Transfers :
        (xfer[t].pc \in {"finally", "done"} /\ xfer[t].result = "ok")
            => xfer[t].n = xfer[t].size


\* C26: when the server has closed the connection, so that reads at the
\* client return nothing or fail and sends fail, the engine eventually is
\* in the disconnected state (do_disconnect has set connected to False and
\* emitted connection_changed(False)), unless the user closes the window
\* first.
C26_DetectsLoss ==
    (ServerGone /\ connected /\ ui.running) ~> (~connected \/ ~ui.running)


\* C29: no thread is at the `with self.socket_lock` of do_disconnect while
\* it holds the socket lock itself (the lock is a threading.Lock, the thread
\* would wait for itself for ever).
C29_NoSelfDeadlock ==
    \A th \in Threads : AtDisconnect(th) => socket_lock # th


(***************************************************************************)
(* SpecToggle: the connection button.  The user connects, refreshes, and   *)
(* disconnects with the button; the listener thread runs its loop; the     *)
(* session of the server answers and ends when its connection is closed.   *)
(***************************************************************************)
\* toggle_connection while connected: do_disconnect on the interface thread
\* (a run has one disconnect, of a connection made at the first attempt)
UDisconnect ==
    /\ ui.pc = "idle"
    /\ connected
    /\ ui.asked = "connect"
    /\ ~ui.failed
    /\ ui' = [ui EXCEPT !.pc = "disconnect", !.asked = "disconnect"]
    /\ UNCHANGED <<fs, cliFrame, connected, server_ip, is_transferring, buffer,
                   socket_lock, lpc, xfer, c2s, s2c, srv>>

NextToggle ==
    \/ UConnect
    \/ UDisconnect
    \/ DoDisconnect("ui")
    \/ URefresh
    \/ USendLock
    \/ USend
    \/ LCheck
    \/ LConnect
    \/ LConnected
    \/ LAcquire
    \/ LRecv
    \/ SrvRecv
    \/ SrvLine
    \/ SrvEnd

SpecToggle == InitClient /\ [][NextToggle]_vars

\* C32: once the user has disconnected with the button, the engine is
\* disconnected and the loop of run is not connecting, as long as the user
\* has not asked for a connection again.
C32_StaysDisconnected ==
    (ui.asked = "disconnect" /\ ui.pc = "idle")
        => (~connected /\ lpc \notin {"connect", "conlock"})


(***************************************************************************)
(* SpecFrame: the read loop of handle_client on a stream of bytes that     *)
(* arrives in segments of any length.  A byte is a letter of a line ("c"), *)
(* a blank ("s"), the newline ("n"), or the first ("L") or second ("T")    *)
(* byte of a character that UTF-8 encodes in two bytes.  Every line that   *)
(* is not blank stands for a command json.loads accepts; the session logs  *)
(* each line it dispatches.                                                *)
(***************************************************************************)
StreamBytes == {"c", "s", "n", "L", "T"}

\* bytes.decode() accepts the bytes: every first byte of a two-byte
\* character has its second byte behind it
RECURSIVE ValidUtf8(_)
ValidUtf8(b) ==
    IF b = <<>> THEN TRUE
    ELSE IF b[1] = "L"
    THEN Len(b) >= 2 /\ b[2] = "T" /\ ValidUtf8(SubSeq(b, 3, Len(b)))
    ELSE b[1] # "T" /\ ValidUtf8(Tail(b))

\* bytes.decode(): the characters of bytes that it accepts
RECURSIVE DecodeText(_)
DecodeText(b) ==
    IF b = <<>> THEN <<>>
    ELSE IF b[1] = "L" THEN <<"e">> \o DecodeText(SubSeq(b, 3, Len(b)))
    ELSE <<b[1]>> \o DecodeText(Tail(b))

\* The streams a client may send: well-formed UTF-8 as a whole
Streams ==
    {b \in UNION {[1..k -> StreamBytes] : k \in 0..MaxStream} : ValidUtf8(b)}

\* buffer.split("\n", 1) repeated while "\n" in buffer
RECURSIVE SplitText(_)
SplitText(t) ==
    IF \A i \in 1..Len(t) : t[i] # "n" THEN [lines |-> <<>>, rest |-> t]
    ELSE LET k == CHOOSE i \in 1..Len(t) :
                      t[i] = "n" /\ \A j \in 1..(i - 1) : t[j] # "n"
             r == SplitText(SubSeq(t, k + 1, Len(t)))
         IN  [lines |-> <<SubSeq(t, 1, k - 1)>> \o r.lines, rest |-> r.rest]

\* not line.strip()
Blank(line) == \A i \in 1..Len(line) : line[i] = "s"

NotBlank(line) == ~Blank(line)

InitFrame ==
    /\ fs = InitialFS
    /\ FSIdle
    /\ XferIdle
    /\ RegIdle
    /\ CliIdle
    /\ peer = NoPeer
    /\ \E st \in Streams : wire = [NoWire EXCEPT !.stream = st]

\* One round of the loop of handle_client: conn.recv(1024) returns the next
\* k bytes, decode() turns them into text or raises (the loop is left by
\* `except Exception`), the text is added to the buffer and every complete
\* line in it that is not blank is dispatched.
FrameRecv ==
    /\ wire.pc = "loop"
    /\ \E k \in 1..(Len(wire.stream) - wire.read) :
        \E chunk \in {SubSeq(wire.stream, wire.read + 1, wire.read + k)} :
            IF ~ValidUtf8(chunk)
            THEN wire' = [wire EXCEPT !.read = @ + k, !.pc = "failed"]
            ELSE \E r \in {SplitText(wire.buf \o DecodeText(chunk))} :
                 wire' = [wire EXCEPT !.read = @ + k,
                                      !.buf = r.rest,
                                      !.served = @ \o SelectSeq(r.lines, NotBlank)]
    /\ UNCHANGED <<fs, fsVars, xferVars, regVars, cliVars, sessVars>>

\* recv returns nothing, the client has closed: the loop is left
FrameEof ==
    /\ wire.pc = "loop"
    /\ wire.read = Len(wire.stream)
    /\ wire' = [wire EXCEPT !.pc = "closed"]
    /\ UNCHANGED <<fs, fsVars, xferVars, regVars, cliVars, sessVars>>

NextFrame ==
    \/ FrameRecv
    \/ FrameEof

SpecFrame == InitFrame /\ [][NextFrame]_vars

\* The bytes the session has read
Arrived == SubSeq(wire.stream, 1, wire.read)

\* The lines of a byte sequence, each up to its newline, and the bytes
\* behind the last newline
RECURSIVE ByteLines(_)
ByteLines(b) ==
    IF \A i \in 1..Len(b) : b[i] # "n" THEN [lines |-> <<>>, rest |-> b]
    ELSE LET k == CHOOSE i \in 1..Len(b) :
                      b[i] = "n" /\ \A j \in 1..(i - 1) : b[j] # "n"
             r == ByteLines(SubSeq(b, k + 1, Len(b)))
         IN  [lines |-> <<DecodeText(SubSeq(b, 1, k - 1))>> \o r.lines,
              rest |-> r.rest]

\* C36: however the stream is cut into reads, the session has dispatched
\* the complete lines of what has arrived that are not blank, each once and
\* in order, it keeps the unterminated rest, and it is still reading unless
\* the client has closed.
C36_FramingIndependent ==
    /\ wire.pc # "failed"
    /\ wire.served = SelectSeq(ByteLines(Arrived).lines, NotBlank)
    /\ wire.buf = DecodeText(ByteLines(Arrived).rest)


(***************************************************************************)
(* SpecListen: the listener thread of the client on a connection whose     *)
(* other end writes what it likes: up to MaxLines lines, each a listing,   *)
(* an error reply or a line that is not JSON.  The reads of the listener   *)
(* end anywhere.                                                           *)
(***************************************************************************)
\* The listing of a storage that holds the file "f"
FileListing == HandleList(CliFS, ListRequest).resp[1]

\* The lines the other end writes, by kind
FeedLines ==
    { [kind |-> "listing", line |-> Line(FileListing)],
      [kind |-> "listing", line |-> Line(ListingResp({}, <<>>))],
      [kind |-> "error", line |-> Line(ErrorResp("Not found"))],
      [kind |-> "bad", line |-> BadLine] }

\* The other end writes a line (peer.wrote: the kinds of the lines written)
FeedLine ==
    /\ connected
    /\ peer.lines < MaxLines
    /\ \E l \in FeedLines :
        /\ s2c' = s2c \o l.line
        /\ peer' = [peer EXCEPT !.lines = @ + 1, !.wrote = Append(@, l.kind)]
    /\ UNCHANGED <<fs, fsVars, xferVars, regVars, wireVars, connected, server_ip,
                   is_transferring, buffer, socket_lock, lpc, ui, xfer, c2s, srv>>

NextListen ==
    \/ UConnect
    \/ LCheck
    \/ LConnect
    \/ LConnected
    \/ LAcquire
    \/ LRecv
    \/ FeedLine

SpecListen == InitClient /\ [][NextListen]_vars

\* The complete lines the listener has in its buffer after the read of this
\* step
LinesRead ==
    SplitLines(buffer \o SubSeq(s2c, 1, Len(s2c) - Len(s2c'))).lines

IsListing(line) == Decode(line).ok /\ "items" \in Keys(Decode(line).msg)

\* Line j is a listing that follows a line that does not decode and is the
\* last listing of the lines read
ListingAfterBad(j) ==
    /\ IsListing(LinesRead[j])
    /\ \E i \in 1..(j - 1) : ~Decode(LinesRead[i]).ok
    /\ \A k \in (j + 1)..Len(LinesRead) : ~IsListing(LinesRead[k])

\* C39: when the listener meets a line that does not decode, it drops the
\* line and stays connected, and the complete lines behind it are decoded
\* and handed on: a listing among them reaches the window.
C39_ListenerStep ==
    (lpc = "recv" /\ lpc' = "check"
     /\ \E i \in 1..Len(LinesRead) : ~Decode(LinesRead[i]).ok)
        => /\ connected' = connected
           /\ connected
           /\ \A j \in 1..Len(LinesRead) :
                 ListingAfterBad(j) => ui'.shown = Decode(LinesRead[j]).msg.items

C39_BadLineDropped == [][C39_ListenerStep]_vars

\* The other end has written a line that is not JSON and then the listing
\* of the file; the listener has read everything, is connected, and the
\* window shows the file.
C39_Witness ==
    /\ peer.wrote = <<"bad", "listing">>
    /\ s2c = <<>>
    /\ buffer = <<>>
    /\ lpc = "check"
    /\ connected
    /\ ui.shown = FileListing.items
    /\ ui.shown # {}

====
